---- MODULE Spec2Model ----
(***************************************************************************)
(* Mini CRM backend (backend/index.js): customer and order stores and      *)
(* their ingestion (direct or through the Bull queues), segment store and  *)
(* matching (matchCondition), campaign store, communication log,           *)
(* delivery-receipt buffer, the campaign dispatcher                        *)
(* (POST /api/campaigns/:id/send) and the receipts batch processor         *)
(* (processReceiptsBatch, run by setInterval).                             *)
(*                                                                         *)
(* Every Express handler and the timer callback use synchronous fs calls   *)
(* only, so each runs to completion on the Node event loop: one handler    *)
(* is one atomic action.                                                   *)
(*                                                                         *)
(* Stores are the JSON files; a file holding an array is a sequence.       *)
(* uuidv4() is a counter per kind of object (`issued`), so an id is never  *)
(* handed out twice; id 0 is a uuid that names nothing.  new Date() is     *)
(* `clock`, which advances after each accepted receipt, so whatever        *)
(* happens after a receipt carries a strictly later timestamp.  An         *)
(* optional field (deliveredAt, last_order_date, a missing request field)  *)
(* is <<>> when absent and <<v>> when present.  Money is counted in        *)
(* thousandths (25555 is 25.555).                                          *)
(*                                                                         *)
(* customersQueue and ordersQueue are the Bull queues, null unless         *)
(* REDIS_URL is set; a queue holds the jobs added and not yet processed.   *)
(* A processor is an async function without an await, so one job is one    *)
(* atomic action as well.                                                  *)
(***************************************************************************)
EXTENDS Integers, Sequences, FiniteSets, TLC

VARIABLES
  customers,   \* data/customers.json
  orders,      \* data/orders.json
  segments,    \* data/segments.json
  campaigns,   \* data/campaigns.json
  commLog,     \* data/communication_log.json
  receipts,    \* data/receipts.json
  customersQueue,  \* new Queue('customers', REDIS_URL), or null
  ordersQueue,     \* new Queue('orders', REDIS_URL), or null
  issued,      \* uuidv4(): how many ids of each kind were handed out
  clock,       \* new Date()
  res          \* what the last handler answered / logged

stores == <<customers, orders, segments, campaigns, commLog, receipts>>
queues == <<customersQueue, ordersQueue>>
vars == <<customers, orders, segments, campaigns, commLog, receipts,
          customersQueue, ordersQueue, issued, clock, res>>

\* how many objects of each kind are ever created
MaxSegments == 1
MaxCampaigns == 1
MaxLog == 2
MaxReceipts == 2
MaxOrders == 2
\* how many jobs wait in one queue
MaxJobs == 1
\* the objects (orders, segments, campaigns, log records, receipts) a run of
\* SpecFrame creates in all
MaxObjects == 4

-----------------------------------------------------------------------------
(* Input domains *)

\* Date.prototype.toISOString for the timestamps 0..9 (seconds after the epoch)
toISOString(t) == "1970-01-01T00:00:0" \o ToString(t) \o ".000Z"

\* toLowerCase leaving every string as it is
toLowerCaseId(s) == s

\* String.prototype.toLowerCase over the strings of the input domains: the
\* email A@x.io and the ISO dates have upper-case letters
toLowerCase(s) ==
  IF s = "A@x.io" THEN "a@x.io"
  ELSE IF \E t \in 0..9 : s = toISOString(t)
    THEN LET t == CHOOSE t \in 0..9 : s = toISOString(t)
         IN "1970-01-01t00:00:0" \o ToString(t) \o ".000z"
  ELSE s

CustomerInputs ==
  { [email |-> "A@x.io", total_spent |-> 0],
    [email |-> "b@x.io", total_spent |-> 0],
    [email |-> "b@x.io", total_spent |-> 100] }
\* the request bodies among them that make a customer of the prepared
\* segment's audience (A's email, or more than 50 spent)
AudienceInputs == {c \in CustomerInputs : c.email = "A@x.io" \/ c.total_spent > 50}
\* a request body customerSchema rejects (total_spent below 0)
BadCustomerInputs == { [email |-> "b@x.io", total_spent |-> -1000] }
\* request bodies of POST /api/orders; c@x.io is nobody's email; date is left
\* out (<<>>) or an ISO date (its timestamp)
OrderInputs ==
  { [customer_email |-> "A@x.io", amount |-> 25555, date |-> <<5>>],
    [customer_email |-> "A@x.io", amount |-> 19999, date |-> <<>>],
    [customer_email |-> "c@x.io", amount |-> 19999, date |-> <<>>] }
\* a request body orderSchema rejects (amount below 0)
BadOrderInputs == { [customer_email |-> "A@x.io", amount |-> -1000, date |-> <<>>] }
\* request bodies the schemas accept (Joi.number().min(0)): a customer who
\* has spent 0.004, an order of amount 0
SmallCustomerInputs == { [email |-> "A@x.io", total_spent |-> 4] }
SmallOrderInputs == { [customer_email |-> "A@x.io", amount |-> 0, date |-> <<>>] }
MessageInputs == {"m1"}
SegmentIdInputs == 1..MaxSegments
CampaignIdInputs == 1..MaxCampaigns
Kinds == {"order", "segment", "campaign", "log", "receipt"}
\* the distinct lowercased emails of CustomerInputs bound the audience
MaxAudience == Cardinality({toLowerCase(c.email) : c \in CustomerInputs})
\* the campaign ids a Send names under SpecTraffic: the stored ones
DispatchIdInputs == {campaigns[i].id : i \in DOMAIN campaigns}
\* request bodies of POST /api/delivery-receipt: the receipt names a stored
\* campaign or (id 0) a uuid that names none; status may be left out
ReceiptInputs ==
  { [campaignId |-> <<c>>, customer_email |-> <<"A@x.io">>, status |-> st] :
      c \in DispatchIdInputs, st \in {<<>>, <<"DELIVERED">>} }
  \cup { [campaignId |-> <<0>>, customer_email |-> <<"A@x.io">>,
          status |-> <<"DELIVERED">>] }
\* request bodies that lack one of the two identifiers
BadReceiptInputs ==
  { [campaignId |-> <<>>, customer_email |-> <<"A@x.io">>,
     status |-> <<"DELIVERED">>],
    [campaignId |-> <<0>>, customer_email |-> <<>>,
     status |-> <<"DELIVERED">>] }

Num(n) == [kind |-> "num", n |-> n, s |-> ""]
Str(s) == [kind |-> "str", n |-> 0, s |-> s]
IsoDate(t) == [kind |-> "date", n |-> t, s |-> toISOString(t)]

CondEveryone == [field |-> "total_spent", op |-> "gte", value |-> Num(0)]
CondBigSpender == [field |-> "total_spent", op |-> "gt", value |-> Num(50)]
CondEmailA == [field |-> "email", op |-> "eq", value |-> Str("A@x.io")]
CondBadField == [field |-> "name", op |-> "eq", value |-> Str("A@x.io")]

CondBadOp == [field |-> "email", op |-> "like", value |-> Str("A@x.io")]
CondNoValue == [field |-> "email", op |-> "eq", value |-> Str("")]

\* request bodies of POST /api/segments that are stored; logic may be left
\* out (<<>>)
SegmentInputs ==
  { [name |-> "s1", conditions |-> <<CondEveryone>>, logic |-> <<"AND">>],
    [name |-> "s1", conditions |-> <<CondEmailA, CondBigSpender>>, logic |-> <<"OR">>] }
\* further request bodies: without logic, and those the handler rejects
EdgeSegmentInputs ==
  { [name |-> "s1", conditions |-> <<CondBigSpender>>, logic |-> <<>>],
    [name |-> "s1", conditions |-> <<>>, logic |-> <<"AND">>],
    [name |-> "s1", conditions |-> <<>>, logic |-> <<>>],
    [name |-> "", conditions |-> <<CondEveryone>>, logic |-> <<"AND">>],
    [name |-> "s1", conditions |-> <<CondBadField>>, logic |-> <<"AND">>],
    [name |-> "s1", conditions |-> <<CondEveryone, CondBadOp>>, logic |-> <<"OR">>],
    [name |-> "s1", conditions |-> <<CondNoValue>>, logic |-> <<"AND">>],
    [name |-> "s1", conditions |-> <<CondEveryone>>, logic |-> <<"and">>] }
\* name and message of POST /api/campaigns, "" when left out
NameInputs == {"", "n1"}
EdgeMessageInputs == {"", "m1"}
\* segmentId of POST /api/campaigns: left out, a uuid that names no segment
\* (0), or the id of a segment that may be stored
EdgeSegmentIdInputs == {<<>>} \cup {<<i>> : i \in 0..MaxSegments}

-----------------------------------------------------------------------------
(* Utilities *)

\* uuidv4() for the next object of a kind
uuidv4(kind) == issued[kind] + 1

\* readJsonSafe: the parsed array, or [] when the read or the parse throws
readJsonSafe(file, ok) == IF ok THEN file ELSE <<>>

\* Array.prototype.find / findIndex as a 1-based index, 0 for "not found"
findIndex(seq, Test(_)) ==
  LET hits == {i \in DOMAIN seq : Test(seq[i])}
  IN IF hits = {} THEN 0 ELSE CHOOSE i \in hits : \A j \in hits : i <= j

\* Array.prototype.filter
filter(seq, Test(_)) ==
  LET F[i \in 0..Len(seq)] ==
        IF i = 0 THEN <<>>
        ELSE IF Test(seq[i]) THEN Append(F[i - 1], seq[i]) ELSE F[i - 1]
  IN F[Len(seq)]

\* let customersQueue = null; let ordersQueue = null
null == [on |-> FALSE, jobs |-> <<>>]

\* new Queue(name, process.env.REDIS_URL): a queue with no job yet
Queue == [on |-> TRUE, jobs |-> <<>>]

\* slice(0, n) that keeps the whole array
slice0Whole(seq, n) == seq

\* Array.prototype.slice(0, n)
slice0(seq, n) == SubSeq(seq, 1, IF Len(seq) < n THEN Len(seq) ELSE n)

Init ==
  /\ customers = <<>>
  /\ orders = <<>>
  /\ customersQueue = null
  /\ ordersQueue = null
  /\ segments = <<>>
  /\ campaigns = <<>>
  /\ commLog = <<>>
  /\ receipts = <<>>
  /\ issued = [k \in Kinds |-> 0]
  /\ clock = 1
  /\ res = [op |-> "start", code |-> 0]

-----------------------------------------------------------------------------
(* POST /api/customers, synchronous path (no REDIS_URL) *)

\* customerSchema.validate: no error
customerSchemaValid(input) == input.total_spent >= 0

\* findCustomer comparing the emails as they are written
findCustomerExact(cs, email) == findIndex(cs, LAMBDA c : c.email = email)

\* findCustomer falling back on the first customer of the store
findCustomerOrFirst(cs, email) ==
  LET idx == findIndex(cs, LAMBDA c : toLowerCase(c.email) = toLowerCase(email))
  IN IF idx # 0 THEN idx ELSE IF cs # <<>> THEN 1 ELSE 0

\* customers.find(c => c.email.toLowerCase() === email.toLowerCase()) as an index
findCustomer(cs, email) ==
  findIndex(cs, LAMBDA c : toLowerCase(c.email) = toLowerCase(email))

\* newCustomer keeping the email as it was typed
newCustomerAsTyped(value) ==
  [email |-> value.email,
   total_spent |-> value.total_spent,
   last_order_date |-> <<>>]

\* the newCustomer object
newCustomer(value) ==
  [email |-> toLowerCase(value.email),
   total_spent |-> value.total_spent,
   last_order_date |-> <<>>]

\* queue.add({ payload: value }) resolving
add(queue, value) == [queue EXCEPT !.jobs = Append(@, value)]

IngestCustomer(input) ==
  IF ~customerSchemaValid(input)
    THEN /\ res' = [op |-> "customer", code |-> 400]
         /\ UNCHANGED <<stores, queues, issued, clock>>
  ELSE IF customersQueue.on
    THEN /\ Len(customersQueue.jobs) < MaxJobs
         /\ customersQueue' = add(customersQueue, input)
         /\ res' = [op |-> "customer", code |-> 202]
         /\ UNCHANGED <<stores, ordersQueue, issued, clock>>
  ELSE
  LET cs == readJsonSafe(customers, TRUE)
      existing == findCustomer(cs, input.email)
  IN IF existing # 0
       THEN /\ res' = [op |-> "customer", code |-> 200]
            /\ UNCHANGED <<stores, queues, issued, clock>>
       ELSE /\ customers' = Append(cs, newCustomer(input))
            /\ res' = [op |-> "customer", code |-> 201]
            /\ UNCHANGED <<orders, segments, campaigns, commLog, receipts, queues, issued, clock>>

(* POST /api/customers when customersQueue.add rejects: the .catch logs the
   error, the handler has returned, no response is ever sent (code 0) and
   nothing is written *)
CustomerAddRejected(input) ==
  /\ customerSchemaValid(input)
  /\ customersQueue.on
  /\ res' = [op |-> "customer", code |-> 0, req |-> input]
  /\ UNCHANGED <<stores, queues, issued, clock>>

(* customersQueue.process: the processor takes the oldest waiting job *)
customersQueueProcess ==
  /\ customersQueue.on
  /\ customersQueue.jobs # <<>>
  /\ LET value == Head(customersQueue.jobs)
         cs == readJsonSafe(customers, TRUE)
         existing == findCustomer(cs, value.email)
     IN /\ customers' = IF existing # 0 THEN customers
                                         ELSE Append(cs, newCustomer(value))
        /\ customersQueue' = [customersQueue EXCEPT !.jobs = Tail(@)]
        /\ res' = [op |-> "customerJob", code |-> IF existing # 0 THEN 200 ELSE 201,
                   req |-> value]
        /\ UNCHANGED <<orders, segments, campaigns, commLog, receipts, ordersQueue,
                       issued, clock>>

-----------------------------------------------------------------------------
(* POST /api/orders and ordersQueue.process *)

\* orderSchema.validate: no error
orderSchemaValid(input) == input.amount >= 0

\* the newOrder object; date defaults to new Date() in orderSchema
newOrder(value) ==
  [id |-> uuidv4("order"),
   customer_email |-> toLowerCase(value.customer_email),
   amount |-> value.amount,
   date |-> IF value.date = <<>> THEN clock ELSE value.date[1]]

(* The sums p + a of OrderInputs amounts that end in 5 thousandths and whose
   IEEE-754 double lies below the exact decimal, e.g. 0 + 25.555 is the
   double 25.554999999999999715...; the other such sums of the model lie
   above (25.55 + 25.555 is 51.10500000000000398...). *)
SumsBelowTie == {25555, 45555, 71105, 76665, 91105, 96665}

\* toFixed2 cutting the digits off
toFixed2Truncate(x) == (x \div 10) * 10

\* Number(x.toFixed(2)) of the double sum x >= 0: the nearest hundredth of
\* the double
toFixed2(x) ==
  LET q == (x \div 10) * 10
      r == x % 10
  IN IF r < 5 THEN q
     ELSE IF r > 5 THEN q + 10
     ELSE IF x \in SumsBelowTie THEN q ELSE q + 10

\* customer.total_spent = ...; customer.last_order_date = newOrder.date
rollup(customer, order) ==
  [customer EXCEPT !.total_spent = toFixed2(customer.total_spent + order.amount),
                   !.last_order_date = <<order.date>>]

IngestOrder(input) ==
  IF ~orderSchemaValid(input)
    THEN /\ res' = [op |-> "order", code |-> 400, req |-> input]
         /\ UNCHANGED <<stores, queues, issued, clock>>
  ELSE IF ordersQueue.on
    THEN /\ Len(ordersQueue.jobs) < MaxJobs
         /\ ordersQueue' = add(ordersQueue, input)
         /\ res' = [op |-> "order", code |-> 202, req |-> input]
         /\ UNCHANGED <<stores, customersQueue, issued, clock>>
  ELSE
  LET cs == readJsonSafe(customers, TRUE)
      customer == findCustomer(cs, input.customer_email)
  IN IF customer = 0
       THEN /\ res' = [op |-> "order", code |-> 404, req |-> input]
            /\ UNCHANGED <<stores, queues, issued, clock>>
       ELSE LET order == newOrder(input)
            IN /\ issued["order"] < MaxOrders
               /\ orders' = Append(readJsonSafe(orders, TRUE), order)
               /\ customers' = [cs EXCEPT ![customer] = rollup(@, order)]
               /\ issued' = [issued EXCEPT !["order"] = @ + 1]
               /\ res' = [op |-> "order", code |-> 201, req |-> input]
               /\ UNCHANGED <<segments, campaigns, commLog, receipts, queues, clock>>

(* POST /api/orders when ordersQueue.add rejects: the .catch logs the error,
   no response is ever sent (code 0) and nothing is written *)
OrderAddRejected(input) ==
  /\ orderSchemaValid(input)
  /\ ordersQueue.on
  /\ res' = [op |-> "order", code |-> 0, req |-> input]
  /\ UNCHANGED <<stores, queues, issued, clock>>

(* ordersQueue.process: the processor takes the oldest waiting job; when the
   customer is not found it throws and the job fails (code 404 here) *)
ordersQueueProcess ==
  /\ ordersQueue.on
  /\ ordersQueue.jobs # <<>>
  /\ LET value == Head(ordersQueue.jobs)
         cs == readJsonSafe(customers, TRUE)
         customer == findCustomer(cs, value.customer_email)
     IN IF customer = 0
          THEN /\ ordersQueue' = [ordersQueue EXCEPT !.jobs = Tail(@)]
               /\ res' = [op |-> "orderJob", code |-> 404, req |-> value]
               /\ UNCHANGED <<stores, customersQueue, issued, clock>>
          ELSE LET order == newOrder(value)
               IN /\ issued["order"] < MaxOrders
                  /\ orders' = Append(readJsonSafe(orders, TRUE), order)
                  /\ customers' = [cs EXCEPT ![customer] = rollup(@, order)]
                  /\ ordersQueue' = [ordersQueue EXCEPT !.jobs = Tail(@)]
                  /\ issued' = [issued EXCEPT !["order"] = @ + 1]
                  /\ res' = [op |-> "orderJob", code |-> 201, req |-> value]
                  /\ UNCHANGED <<segments, campaigns, commLog, receipts,
                                 customersQueue, clock>>

-----------------------------------------------------------------------------
(* Segment matching *)

\* Number(s) of a string: 0 for the empty and the blank string, the number a
\* numeral writes, NaN (<<>>) otherwise
StringToNumber(str) ==
  CASE str \in {"", " "} -> <<0>>
    [] str = "50" -> <<50>>
    [] OTHER -> <<>>

\* Number(value): <<n>>, or <<>> for NaN
Number(value) == IF value.kind = "num" THEN <<value.n>> ELSE StringToNumber(value.s)

\* DateParse taking the epoch for what does not parse
DateParseEpoch(value) == IF value.kind = "date" THEN <<value.n>> ELSE <<0>>

\* Date.parse(String(value)) for ISO date strings and strings without a
\* digit: <<timestamp>>, or <<>> for NaN
DateParse(value) == IF value.kind = "date" THEN <<value.n>> ELSE <<>>

\* String(value || '')
StringOf(value) ==
  IF value.kind = "num"
    THEN (IF value.n = 0 THEN "" ELSE ToString(value.n))
    ELSE value.s

\* the six comparison switches on two numbers
compare(op, left, right) ==
  CASE op = "gt" -> left > right
    [] op = "gte" -> left >= right
    [] op = "lt" -> left < right
    [] op = "lte" -> left <= right
    [] op = "eq" -> left = right
    [] op = "neq" -> left # right
    [] OTHER -> FALSE

\* customer[field] is not undefined
has(customer, field) == field \in DOMAIN customer

matchCondition(customer, condition) ==
  LET field == condition.field
      op == condition.op
      value == condition.value
  IN CASE field = "last_order_date" ->
            LET leftTs == IF has(customer, field) /\ customer.last_order_date # <<>>
                            THEN customer.last_order_date[1] ELSE 0
                rightTs == DateParse(value)
            IN IF rightTs = <<>> THEN FALSE ELSE compare(op, leftTs, rightTs[1])
       [] field = "total_spent" ->
            LET left == IF has(customer, field) THEN customer.total_spent ELSE 0
                right == Number(value)
            IN IF right = <<>> THEN FALSE ELSE compare(op, left, right[1])
       [] OTHER ->
            LET leftStr == toLowerCase(IF has(customer, field) THEN customer[field] ELSE "")
                rightStr == toLowerCase(StringOf(value))
            IN CASE op = "eq" -> leftStr = rightStr
                 [] op = "neq" -> leftStr # rightStr
                 [] OTHER -> FALSE

\* matchesSegment that takes every rule-set for a conjunction
matchesSegmentEvery(customer, conditions, logic) ==
  \A i \in DOMAIN conditions : matchCondition(customer, conditions[i])

\* results.every(Boolean) / results.some(Boolean) over conditions.map(matchCondition)
matchesSegment(customer, conditions, logic) ==
  IF logic = "AND"
    THEN \A i \in DOMAIN conditions : matchCondition(customer, conditions[i])
    ELSE \E i \in DOMAIN conditions : matchCondition(customer, conditions[i])

\* customers.filter(...) of the preview and send handlers
audience(cs, segment) ==
  filter(cs, LAMBDA c : matchesSegment(c, segment.conditions, segment.logic))

\* previewSchema without .min(1)
previewSchemaValidNoMin(conditions, logic) ==
  /\ \A i \in DOMAIN conditions :
       /\ conditions[i].field \in {"total_spent", "email", "last_order_date"}
       /\ conditions[i].op \in {"gt", "gte", "lt", "lte", "eq", "neq"}
       /\ conditions[i].value # Str("")
  /\ logic \in {"AND", "OR"}

\* previewSchema.validate: no error (Joi.string() does not allow "")
previewSchemaValid(conditions, logic) ==
  /\ Len(conditions) >= 1
  /\ \A i \in DOMAIN conditions :
       /\ conditions[i].field \in {"total_spent", "email", "last_order_date"}
       /\ conditions[i].op \in {"gt", "gte", "lt", "lte", "eq", "neq"}
       /\ conditions[i].value # Str("")
  /\ logic \in {"AND", "OR"}

\* payload.logic || 'AND', and .default('AND') of previewSchema
logicOf(logic) == IF logic = <<>> THEN "AND" ELSE logic[1]

-----------------------------------------------------------------------------
(* POST /api/segments; payload.conditions is an array *)

SaveSegment(input) ==
  IF input.name = "" \/ ~previewSchemaValid(input.conditions, logicOf(input.logic))
    THEN /\ res' = [op |-> "segment", code |-> 400, req |-> input]
         /\ UNCHANGED <<stores, queues, issued, clock>>
    ELSE /\ issued["segment"] < MaxSegments
         /\ segments' = Append(readJsonSafe(segments, TRUE),
                               [id |-> uuidv4("segment"),
                                name |-> input.name,
                                conditions |-> input.conditions,
                                logic |-> logicOf(input.logic)])
         /\ issued' = [issued EXCEPT !["segment"] = @ + 1]
         /\ res' = [op |-> "segment", code |-> 201, req |-> input]
         /\ UNCHANGED <<customers, orders, campaigns, commLog, receipts, queues, clock>>

-----------------------------------------------------------------------------
(* POST /api/segments/preview *)

\* matches.slice(0, 10)
PreviewSize == 10

\* a preview that saves the audience it resolved as the customer store
PreviewSaving(input) ==
  /\ previewSchemaValid(input.conditions, logicOf(input.logic))
  /\ LET matches == audience(readJsonSafe(customers, TRUE),
                             [conditions |-> input.conditions,
                              logic |-> logicOf(input.logic)])
     IN /\ customers' = matches
        /\ res' = [op |-> "preview", code |-> 200, req |-> input,
                   body |-> [audience_count |-> Len(matches),
                             sample |-> slice0(matches, PreviewSize)]]
        /\ UNCHANGED <<orders, segments, campaigns, commLog, receipts, queues,
                       issued, clock>>

Preview(input) ==
  IF ~previewSchemaValid(input.conditions, logicOf(input.logic))
    THEN /\ res' = [op |-> "preview", code |-> 400, req |-> input]
         /\ UNCHANGED <<stores, queues, issued, clock>>
    ELSE LET matches == audience(readJsonSafe(customers, TRUE),
                                 [conditions |-> input.conditions,
                                  logic |-> logicOf(input.logic)])
         IN /\ res' = [op |-> "preview", code |-> 200, req |-> input,
                       body |-> [audience_count |-> Len(matches),
                                 sample |-> slice0(matches, PreviewSize)]]
            /\ UNCHANGED <<stores, queues, issued, clock>>

-----------------------------------------------------------------------------
(* POST /api/campaigns *)

\* required without the name
requiredNoName(name, segmentId, message) == segmentId # <<>> /\ message # ""

\* !(!name || !segmentId || !message)
required(name, segmentId, message) ==
  name # "" /\ segmentId # <<>> /\ message # ""

\* a lookup that takes the first position for found, whatever the store holds
findSegmentAny(segs, segmentId) == 1

\* segments.find(s => s.id === segmentId) as an index
findSegment(segs, segmentId) == findIndex(segs, LAMBDA sg : sg.id = segmentId)

CreateCampaign(name, segmentId, message) ==
  LET req == [name |-> name, segmentId |-> segmentId, message |-> message]
  IN
  IF ~required(name, segmentId, message)
    THEN /\ res' = [op |-> "campaign", code |-> 400, req |-> req]
         /\ UNCHANGED <<stores, queues, issued, clock>>
    ELSE LET segs == readJsonSafe(segments, TRUE)
             segment == findSegment(segs, segmentId[1])
         IN IF segment = 0
              THEN /\ res' = [op |-> "campaign", code |-> 404, req |-> req]
                   /\ UNCHANGED <<stores, queues, issued, clock>>
              ELSE /\ issued["campaign"] < MaxCampaigns
                   /\ campaigns' = Append(readJsonSafe(campaigns, TRUE),
                                          [id |-> uuidv4("campaign"),
                                           name |-> name,
                                           segmentId |-> segmentId[1],
                                           message |-> message,
                                           status |-> "CREATED"])
                   /\ issued' = [issued EXCEPT !["campaign"] = @ + 1]
                   /\ res' = [op |-> "campaign", code |-> 201, req |-> req]
                   /\ UNCHANGED <<customers, orders, segments, commLog, receipts, queues, clock>>

-----------------------------------------------------------------------------
(* Communication log + send endpoint *)

\* addCommRecord writing from a copy of the log read before the ticks'
\* updates
addCommRecordStale(logFile, record, readOk) ==
  Append([k \in DOMAIN logFile |-> [logFile[k] EXCEPT !.deliveredAt = <<>>]], record)

\* addCommRecord: read the log file, push, write it back
addCommRecord(logFile, record, readOk) == Append(readJsonSafe(logFile, readOk), record)

\* the record built for the k-th matched customer (k counts from 1)
commRecord(campaign, cust, k, success) ==
  [id |-> uuidv4("log") + (k - 1),
   campaignId |-> campaign.id,
   customer_email |-> cust.email,
   status |-> IF success THEN "SENT" ELSE "FAILED",
   message |-> campaign.message,
   timestamp |-> clock,
   deliveredAt |-> <<>>]

\* dispatchRecords with a loop that stops at the first failed attempt
dispatchRecordsAbortOnFail(campaign, matches, outcomes) ==
  LET fails == {k \in 1..Len(matches) : ~outcomes[k]}
      last == IF fails = {} THEN Len(matches)
              ELSE CHOOSE k \in fails : \A j \in fails : k <= j
  IN [k \in 1..last |-> commRecord(campaign, matches[k], k, outcomes[k])]

\* matches.forEach(...): the records built, in audience order
dispatchRecords(campaign, matches, outcomes) ==
  [k \in 1..Len(matches) |-> commRecord(campaign, matches[k], k, outcomes[k])]

\* the log file after the addCommRecord calls of the loop; readsOk[k]: whether
\* the k-th call's read of the log file succeeds inside readJsonSafe
RECURSIVE appendAll(_, _, _)
appendAll(logFile, records, readsOk) ==
  IF records = <<>> THEN logFile
  ELSE appendAll(addCommRecord(logFile, Head(records), Head(readsOk)),
                 Tail(records), Tail(readsOk))

\* how many records of the loop were sent / failed
countStatus(records, status) ==
  Cardinality({k \in DOMAIN records : records[k].status = status})

\* dispatchStatus without the empty-audience branch
dispatchStatusNoBranch(audienceCount, failed) ==
  IF failed = 0 THEN "SENT" ELSE "PARTIAL_FAILED"

\* dispatchStatus deciding NO_AUDIENCE by "nothing was sent"
dispatchStatusBySent(audienceCount, failed) ==
  IF audienceCount - failed = 0 THEN "NO_AUDIENCE"
  ELSE IF failed = 0 THEN "SENT" ELSE "PARTIAL_FAILED"

\* campaign.status as the handler sets it
dispatchStatus(audienceCount, failed) ==
  IF audienceCount = 0 THEN "NO_AUDIENCE"
  ELSE IF failed = 0 THEN "SENT" ELSE "PARTIAL_FAILED"

\* sample.length < 5
SampleSize == 5

\* the JSON body the handler answers with
dispatchBody(records) ==
  [audience_count |-> Len(records),
   sent |-> countStatus(records, "SENT"),
   failed |-> countStatus(records, "FAILED"),
   sample |-> slice0(records, SampleSize)]

\* the JSON body of the NO_AUDIENCE branch
noAudienceBody == [audience_count |-> 0, sent |-> 0, failed |-> 0, sample |-> <<>>]

\* findCampaign falling back on the first campaign of the store
findCampaignOrFirst(camps, campaignId) ==
  LET idx == findIndex(camps, LAMBDA c : c.id = campaignId)
  IN IF idx # 0 THEN idx ELSE IF camps # <<>> THEN 1 ELSE 0

\* campaigns.find(c => c.id === campaignId) as an index
findCampaign(camps, campaignId) == findIndex(camps, LAMBDA c : c.id = campaignId)

\* setStatus that also renames the campaign after its status
setStatusAndName(camps, ci, status) ==
  [camps EXCEPT ![ci].status = status, ![ci].name = status]

\* campaign.status = ...; writeJsonSafe(CAMPAIGNS_FILE, campaigns)
setStatus(camps, ci, status) == [camps EXCEPT ![ci].status = status]

\* a loop whose failing write discards the records written before it
writtenNone(records, writeFailAt) == <<>>

\* the records whose addCommRecord returned before the writeFailAt-th one
\* threw out of writeJsonSafe
written(records, writeFailAt) == SubSeq(records, 1, writeFailAt - 1)

(* POST /api/campaigns/:id/send; outcomes[k] is Math.random() < 0.9 for the
   k-th matched customer; readCampaignsOk, readSegmentsOk, readsLogOk[k]:
   whether fs.readFileSync + JSON.parse succeed inside readJsonSafe, for the
   campaigns file, the segments file and the k-th addCommRecord's log file;
   writeFailAt: the addCommRecord call whose fs.writeFileSync fails (0, or a
   number above the audience's: none).  writeJsonSafe rethrows, nothing in
   the handler catches, and Express answers 500. *)
dispatch(campaignId, outcomes, readCampaignsOk, readSegmentsOk, readsLogOk, writeFailAt) ==
  LET camps == readJsonSafe(campaigns, readCampaignsOk)
      ci == findCampaign(camps, campaignId)
  IN IF ci = 0
       THEN /\ res' = [op |-> "send", code |-> 404, id |-> campaignId,
                       error |-> "Campaign not found"]
            /\ UNCHANGED <<stores, queues, issued, clock>>
       ELSE
         LET campaign == camps[ci]
             segs == readJsonSafe(segments, readSegmentsOk)
             si == findIndex(segs, LAMBDA sg : sg.id = campaign.segmentId)
         IN IF si = 0
              THEN /\ res' = [op |-> "send", code |-> 404, id |-> campaignId,
                              error |-> "Segment for campaign not found"]
                   /\ UNCHANGED <<stores, queues, issued, clock>>
              ELSE
                LET matches == audience(readJsonSafe(customers, TRUE), segs[si])
                    records == dispatchRecords(campaign, matches, outcomes)
                    body == dispatchBody(records)
                IN IF Len(matches) = 0
                     THEN /\ campaigns' = setStatus(camps, ci, dispatchStatus(0, 0))
                          /\ res' = [op |-> "send", code |-> 200, id |-> campaignId,
                                     body |-> noAudienceBody]
                          /\ UNCHANGED <<customers, orders, segments, commLog, receipts,
                                         queues, issued, clock>>
                     ELSE IF writeFailAt \in 1..Len(matches)
                     THEN /\ issued["log"] + Len(matches) <= MaxLog
                          /\ commLog' = appendAll(commLog, written(records, writeFailAt),
                                                  readsLogOk)
                          /\ issued' = [issued EXCEPT !["log"] = @ + writeFailAt]
                          /\ res' = [op |-> "send", code |-> 500, id |-> campaignId,
                                     failedAt |-> writeFailAt]
                          /\ UNCHANGED <<customers, orders, segments, campaigns,
                                         receipts, queues, clock>>
                     ELSE /\ issued["log"] + Len(matches) <= MaxLog
                          /\ commLog' = appendAll(commLog, records, readsLogOk)
                          /\ campaigns' = setStatus(camps, ci,
                                                  dispatchStatus(Len(matches), body.failed))
                          /\ issued' = [issued EXCEPT !["log"] = @ + Len(matches)]
                          /\ res' = [op |-> "send", code |-> 200, id |-> campaignId,
                                     body |-> body]
                          /\ UNCHANGED <<customers, orders, segments, receipts, queues, clock>>

\* every read of the log file succeeds
readsOk == [k \in 1..MaxAudience |-> TRUE]

Send(campaignId, outcomes) == dispatch(campaignId, outcomes, TRUE, TRUE, readsOk, 0)

\* a Send during which the read of campaigns.json or of segments.json fails
SendFault ==
  \E cid \in DispatchIdInputs, outcomes \in [1..MaxAudience -> BOOLEAN],
     rc, rs \in BOOLEAN :
    /\ ~(rc /\ rs)
    /\ dispatch(cid, outcomes, rc, rs, readsOk, 0)

\* a Send during which a read of communication_log.json fails in addCommRecord
SendLogFault ==
  \E cid \in DispatchIdInputs, outcomes \in [1..MaxAudience -> BOOLEAN],
     reads \in [1..MaxAudience -> BOOLEAN] :
    /\ reads # readsOk
    /\ dispatch(cid, outcomes, TRUE, TRUE, reads, 0)

\* a Send during which the write of communication_log.json fails in the
\* k-th addCommRecord
SendWriteFault ==
  \E cid \in DispatchIdInputs, outcomes \in [1..MaxAudience -> BOOLEAN],
     k \in 1..MaxAudience :
    dispatch(cid, outcomes, TRUE, TRUE, readsOk, k)

-----------------------------------------------------------------------------
(* POST /api/delivery-receipt *)

\* payload.status || payload.state || 'SENT', always SENT
receiptStatusAlwaysSent(status) == "SENT"

\* payload.status || payload.state || 'SENT'
receiptStatus(status) == IF status = <<>> THEN "SENT" ELSE status[1]

(* The handler.  payload.campaignId stands for the first truthy one of
   campaignId, campaign_id, campaignID (<<>> when there is none), and likewise
   customer_email and status; writeOk: whether fs.writeFileSync succeeds
   inside writeJsonSafe (which rethrows into the handler's catch). *)
deliveryReceipt(payload, writeOk) ==
  LET campaignId == payload.campaignId
      customer_email == payload.customer_email
      status == receiptStatus(payload.status)
  IN
  IF campaignId = <<>> \/ customer_email = <<>>
    THEN /\ res' = [op |-> "receipt", code |-> 400, req |-> payload]
         /\ UNCHANGED <<stores, queues, issued, clock>>
    ELSE LET rec == [id |-> uuidv4("receipt"),
                     campaignId |-> campaignId[1],
                     customer_email |-> toLowerCase(customer_email[1]),
                     status |-> status,
                     receivedAt |-> <<clock>>]
         IN /\ issued["receipt"] < MaxReceipts
            /\ receipts' = IF writeOk THEN Append(readJsonSafe(receipts, TRUE), rec)
                                      ELSE receipts
            /\ issued' = [issued EXCEPT !["receipt"] = @ + 1]
            /\ clock' = clock + 1
            /\ res' = [op |-> "receipt", code |-> IF writeOk THEN 200 ELSE 500,
                       req |-> payload]
            /\ UNCHANGED <<customers, orders, segments, campaigns, commLog, queues>>

\* an intake that buffers the receipt and applies it to the log at once
AcceptAndApply(payload) ==
  /\ payload.campaignId # <<>>
  /\ payload.customer_email # <<>>
  /\ issued["receipt"] < MaxReceipts
  /\ receipts' = Append(receipts,
                        [id |-> uuidv4("receipt"),
                         campaignId |-> payload.campaignId[1],
                         customer_email |-> toLowerCase(payload.customer_email[1]),
                         status |-> receiptStatus(payload.status),
                         receivedAt |-> <<clock>>])
  /\ commLog' = [k \in DOMAIN commLog |->
                   IF /\ commLog[k].campaignId = payload.campaignId[1]
                      /\ commLog[k].customer_email
                           = toLowerCase(payload.customer_email[1])
                     THEN [commLog[k] EXCEPT !.status = receiptStatus(payload.status),
                                             !.deliveredAt = <<clock>>]
                     ELSE commLog[k]]
  /\ issued' = [issued EXCEPT !["receipt"] = @ + 1]
  /\ clock' = clock + 1
  /\ res' = [op |-> "receipt", code |-> 200, req |-> payload]
  /\ UNCHANGED <<customers, orders, segments, campaigns, queues>>

Accept(payload) == deliveryReceipt(payload, TRUE)

AcceptFault == \E payload \in ReceiptInputs : deliveryReceipt(payload, FALSE)

-----------------------------------------------------------------------------
(* Receipts batch processor *)

\* findLog correlating on the recipient alone
findLogByEmail(logs, r) ==
  findIndex(logs, LAMBDA l : l.customer_email = r.customer_email)

\* findLog returning the last record of the pair
findLogLast(logs, r) ==
  LET hits == {i \in DOMAIN logs : /\ logs[i].campaignId = r.campaignId
                                   /\ logs[i].customer_email = r.customer_email}
  IN IF hits = {} THEN 0 ELSE CHOOSE i \in hits : \A j \in hits : i >= j

\* logs.findIndex(l => l.campaignId === r.campaignId && l.customer_email === r.customer_email)
findLog(logs, r) ==
  findIndex(logs, LAMBDA l : l.campaignId = r.campaignId
                             /\ l.customer_email = r.customer_email)

\* applyReceipt that updates a record only while it has no deliveredAt
applyReceiptOnce(logs, r, now) ==
  LET idx == findLog(logs, r)
  IN IF idx # 0 /\ logs[idx].deliveredAt = <<>>
       THEN [logs EXCEPT ![idx].status = r.status,
                         ![idx].deliveredAt =
                            IF r.receivedAt # <<>> THEN r.receivedAt ELSE <<now>>]
       ELSE logs

\* applyReceipt that also stamps the record with the time of the run
applyReceiptStamp(logs, r, now) ==
  LET idx == findLog(logs, r)
  IN IF idx # 0
       THEN [logs EXCEPT ![idx].status = r.status,
                         ![idx].deliveredAt =
                            IF r.receivedAt # <<>> THEN r.receivedAt ELSE <<now>>,
                         ![idx].timestamp = now]
       ELSE logs

\* the body of receipts.forEach for one receipt
applyReceipt(logs, r, now) ==
  LET idx == findLog(logs, r)
  IN IF idx # 0
       THEN [logs EXCEPT ![idx].status = r.status,
                         ![idx].deliveredAt =
                            IF r.receivedAt # <<>> THEN r.receivedAt ELSE <<now>>]
       ELSE logs

\* applyReceipts that stops after the first receipt
applyReceiptsFirst(logs, rs, now) ==
  IF rs = <<>> THEN logs ELSE applyReceipt(logs, Head(rs), now)

\* receipts.forEach(...): the in-memory logs array after the loop
RECURSIVE applyReceipts(_, _, _)
applyReceipts(logs, rs, now) ==
  IF rs = <<>> THEN logs
  ELSE applyReceipts(applyReceipt(logs, Head(rs), now), Tail(rs), now)

\* batchOf taking one receipt per run
batchOfFirst(rs) == SubSeq(rs, 1, 1)

\* the receipts the forEach loop iterates over: the whole array read
batchOf(rs) == rs

\* the `updated` flag set by every receipt, matched or not
anyMatchedOrNot(logs, rs) == rs # <<>>

\* the `updated` flag after the loop; a match never removes a record, so a
\* receipt matches the array it meets iff it matches the array read
anyMatched(logs, rs) == \E i \in DOMAIN rs : findLog(logs, rs[i]) # 0

\* a clear that keeps the receipts that matched no record for a later run
remainingUnmatched(logs, rs) == SelectSeq(rs, LAMBDA r : findLog(logs, r) = 0)

\* writeJsonSafe(RECEIPTS_FILE, []): what the clear leaves in the buffer
remaining(logs, rs) == <<>>

\* writeJsonSafe that throws on every write it attempts
writeThrowsAlways(attempted, ok) == attempted

\* writeJsonSafe that swallows the error of fs.writeFileSync
writeThrowsNever(attempted, ok) == FALSE

\* writeJsonSafe rethrows what fs.writeFileSync throws: an attempted write
\* that fails leaves the try block
writeThrows(attempted, ok) == attempted /\ ~ok

(* processReceiptsBatch, as run by setInterval.  readReceiptsOk, readLogOk:
   whether fs.readFileSync + JSON.parse succeed inside readJsonSafe;
   writeLogOk, writeReceiptsOk: whether fs.writeFileSync succeeds inside
   writeJsonSafe (which rethrows; the batch's own catch logs and returns). *)
processReceiptsBatch(readReceiptsOk, readLogOk, writeLogOk, writeReceiptsOk) ==
  LET rs == readJsonSafe(receipts, readReceiptsOk)
  IN IF Len(rs) = 0
       THEN /\ res' = [op |-> "tick", drained |-> rs, cleared |-> FALSE,
                       logReadFailed |-> FALSE, error |-> FALSE,
                       wrote |-> {}, logWriteFailed |-> FALSE]
            /\ UNCHANGED <<stores, queues, issued, clock>>
       ELSE
         LET logs == readJsonSafe(commLog, readLogOk)
             updated == anyMatched(logs, batchOf(rs))
             logWritten == updated /\ writeLogOk
             threwOnLog == writeThrows(updated, writeLogOk)
             cleared == ~threwOnLog /\ writeReceiptsOk
         IN /\ commLog' = IF logWritten THEN applyReceipts(logs, batchOf(rs), clock)
                                       ELSE commLog
            /\ receipts' = IF cleared THEN remaining(logs, batchOf(rs)) ELSE receipts
            /\ res' = [op |-> "tick", drained |-> batchOf(rs), cleared |-> cleared,
                       logReadFailed |-> ~readLogOk, error |-> ~cleared,
                       wrote |-> (IF logWritten THEN {"log"} ELSE {})
                                   \cup (IF cleared THEN {"receipts"} ELSE {}),
                       logWriteFailed |-> threwOnLog]
            /\ UNCHANGED <<customers, orders, segments, campaigns, queues, issued, clock>>

Tick == processReceiptsBatch(TRUE, TRUE, TRUE, TRUE)

TickFault ==
  \E rr, rl, wl, wr \in BOOLEAN :
    /\ ~(rr /\ rl /\ wl /\ wr)
    /\ processReceiptsBatch(rr, rl, wl, wr)

Next ==
  \/ \E input \in CustomerInputs : IngestCustomer(input)
  \/ \E input \in SegmentInputs : SaveSegment(input)
  \/ \E sid \in SegmentIdInputs, m \in MessageInputs : CreateCampaign("n1", <<sid>>, m)
  \/ \E cid \in CampaignIdInputs, outcomes \in [1..MaxAudience -> BOOLEAN] : Send(cid, outcomes)
  \/ \E payload \in ReceiptInputs : Accept(payload)
  \/ Tick

Spec == Init /\ [][Next]_vars

NextFault == Next \/ TickFault \/ AcceptFault

SpecFault == Init /\ [][NextFault]_vars

(* Dispatch and reconciliation traffic over a prepared configuration: the
   state Init reaches by SaveSegment (A's email or a big spender) followed by
   CreateCampaign on that segment; customers keep arriving. *)
InitTraffic ==
  /\ customers = <<>>
  /\ orders = <<>>
  /\ customersQueue = null
  /\ ordersQueue = null
  /\ segments = <<[id |-> 1, name |-> "s1",
                   conditions |-> <<CondEmailA, CondBigSpender>>, logic |-> "OR"]>>
  /\ campaigns = <<[id |-> 1, name |-> "n1", segmentId |-> 1, message |-> "m1",
                    status |-> "CREATED"]>>
  /\ commLog = <<>>
  /\ receipts = <<>>
  /\ issued = [k \in Kinds |-> IF k \in {"segment", "campaign"} THEN 1 ELSE 0]
  /\ clock = 1
  /\ res = [op |-> "campaign", code |-> 201,
            req |-> [name |-> "n1", segmentId |-> <<1>>, message |-> "m1"]]

(* The same configuration once customer A was ingested; the customers that
   arrive later are of the segment's audience. *)
InitReconcile ==
  /\ customers = <<newCustomer([email |-> "A@x.io", total_spent |-> 0])>>
  /\ orders = <<>>
  /\ customersQueue = null
  /\ ordersQueue = null
  /\ segments = <<[id |-> 1, name |-> "s1",
                   conditions |-> <<CondEmailA, CondBigSpender>>, logic |-> "OR"]>>
  /\ campaigns = <<[id |-> 1, name |-> "n1", segmentId |-> 1, message |-> "m1",
                    status |-> "CREATED"]>>
  /\ commLog = <<>>
  /\ receipts = <<>>
  /\ issued = [k \in Kinds |-> IF k \in {"segment", "campaign"} THEN 1 ELSE 0]
  /\ clock = 1
  /\ res = [op |-> "customer", code |-> 201]

NextTraffic ==
  \/ \E input \in AudienceInputs : IngestCustomer(input)
  \/ \E cid \in DispatchIdInputs, outcomes \in [1..MaxAudience -> BOOLEAN] :
       Send(cid, outcomes)
  \/ \E payload \in ReceiptInputs : Accept(payload)
  \/ Tick

SpecTraffic == InitReconcile /\ [][NextTraffic]_vars

(* matchCondition applied to one customer and one condition.  The customers
   are stored ones and the empty object; the conditions pair every field and
   operator with numbers, strings (a word, a blank, a numeral, emails) and
   ISO dates; last_order_date is paired with the values Date.parse is
   specified for. *)
MatchCustomers ==
  { [email |-> "a@x.io", total_spent |-> 0, last_order_date |-> <<>>],
    [email |-> "a@x.io", total_spent |-> 50, last_order_date |-> <<0>>],
    [email |-> "b@x.io", total_spent |-> 100, last_order_date |-> <<5>>],
    <<>> }
MatchValues ==
  { Num(0), Num(50), Str("abc"), Str(" "), Str("50"), Str("A@x.io"), Str("b@x.io"),
    IsoDate(0), IsoDate(5) }
MatchConditions ==
  { c \in [field : {"total_spent", "last_order_date", "email", "name"},
           op : {"gt", "gte", "lt", "lte", "eq", "neq", "like"},
           value : MatchValues] :
      c.field = "last_order_date" =>
        (c.value.kind = "date" \/ c.value \in {Str("abc"), Str(" "), Str("A@x.io")}) }

InitMatch ==
  /\ customers = <<>>
  /\ orders = <<>>
  /\ customersQueue = null
  /\ ordersQueue = null
  /\ segments = <<>>
  /\ campaigns = <<>>
  /\ commLog = <<>>
  /\ receipts = <<>>
  /\ issued = [k \in Kinds |-> 0]
  /\ clock = 1
  /\ \E c \in MatchCustomers : res = [op |-> "customer", customer |-> c]

Match(condition) ==
  /\ res' = [op |-> "match", customer |-> res.customer, condition |-> condition,
             result |-> matchCondition(res.customer, condition)]
  /\ UNCHANGED <<stores, queues, issued, clock>>

NextMatch == \E condition \in MatchConditions : Match(condition)

SpecMatch == InitMatch /\ [][NextMatch]_vars

(* Dispatch over the prepared configuration, for stored and unknown campaign
   ids (0 names no campaign), with store reads that may fail *)
NextLookup ==
  \/ \E input \in CustomerInputs : IngestCustomer(input)
  \/ \E cid \in DispatchIdInputs \cup {0}, outcomes \in [1..MaxAudience -> BOOLEAN] :
       Send(cid, outcomes)
  \/ SendFault

SpecLookup == InitTraffic /\ [][NextLookup]_vars

(* Defining segments and campaigns, with request bodies of every shape, and
   previewing rule-sets while customers arrive *)
NextDefine ==
  \/ \E input \in CustomerInputs : IngestCustomer(input)
  \/ \E input \in SegmentInputs \cup EdgeSegmentInputs : SaveSegment(input)
  \/ \E input \in SegmentInputs \cup EdgeSegmentInputs : Preview(input)
  \/ \E name \in NameInputs, sid \in EdgeSegmentIdInputs, m \in EdgeMessageInputs :
       CreateCampaign(name, sid, m)

SpecDefine == Init /\ [][NextDefine]_vars

(* Customer and order ingestion, with the queues (REDIS_URL set) or without *)
InitIngest ==
  /\ customers = <<>>
  /\ orders = <<>>
  /\ \E redis \in BOOLEAN :
       /\ customersQueue = (IF redis THEN Queue ELSE null)
       /\ ordersQueue = (IF redis THEN Queue ELSE null)
  /\ segments = <<>>
  /\ campaigns = <<>>
  /\ commLog = <<>>
  /\ receipts = <<>>
  /\ issued = [k \in Kinds |-> 0]
  /\ clock = 1
  /\ res = [op |-> "start", code |-> 0]

NextIngest ==
  \/ \E input \in CustomerInputs \cup BadCustomerInputs : IngestCustomer(input)
  \/ customersQueueProcess
  \/ \E input \in OrderInputs \cup BadOrderInputs : IngestOrder(input)
  \/ ordersQueueProcess

SpecIngest == InitIngest /\ [][NextIngest]_vars

(* Receipt intake and the batch processor alone, over the same prepared
   configuration, with submissions of every shape. *)
NextIntake ==
  \/ \E input \in CustomerInputs : IngestCustomer(input)
  \/ \E payload \in ReceiptInputs \cup BadReceiptInputs : Accept(payload)
  \/ Tick

SpecIntake == InitTraffic /\ [][NextIntake]_vars

(* Audience resolution by the preview and by the send handler.  The stored
   segment is one of four rule-sets (each is what SaveSegment stores for it),
   the campaign is on it, and the customer store is empty or holds
   PreviewSize + 3 customers ingested one after the other, all but the 3rd
   and the 9th big spenders; CustomerInputs keep arriving. *)
ManyCustomers ==
  [i \in 1..(PreviewSize + 3) |->
     newCustomer([email |-> "c" \o ToString(i) \o "@x.io",
                  total_spent |-> IF i % 6 = 3 THEN 0 ELSE 100])]

RuleInputs ==
  { [name |-> "s1", conditions |-> cs, logic |-> <<lg>>] :
      cs \in {<<CondEmailA, CondBigSpender>>, <<CondEveryone, CondEmailA>>},
      lg \in {"AND", "OR"} }

InitAudience ==
  /\ customers \in {<<>>, ManyCustomers}
  /\ orders = <<>>
  /\ customersQueue = null
  /\ ordersQueue = null
  /\ \E input \in RuleInputs :
       segments = <<[id |-> 1, name |-> input.name,
                     conditions |-> input.conditions,
                     logic |-> logicOf(input.logic)]>>
  /\ campaigns = <<[id |-> 1, name |-> "n1", segmentId |-> 1, message |-> "m1",
                    status |-> "CREATED"]>>
  /\ commLog = <<>>
  /\ receipts = <<>>
  /\ issued = [k \in Kinds |-> IF k \in {"segment", "campaign"} THEN 1 ELSE 0]
  /\ clock = 1
  /\ res = [op |-> "campaign", code |-> 201,
            req |-> [name |-> "n1", segmentId |-> <<1>>, message |-> "m1"]]

NextAudience ==
  \/ \E input \in CustomerInputs : IngestCustomer(input)
  \/ \E input \in RuleInputs \cup EdgeSegmentInputs : Preview(input)
  \/ \E cid \in DispatchIdInputs, outcomes \in [1..MaxAudience -> BOOLEAN] :
       Send(cid, outcomes)

SpecAudience == InitAudience /\ [][NextAudience]_vars

(* Dispatch, receipt intake and the batch processor over the prepared
   configuration with customer A, where the reads and writes of a tick may
   fail. *)
NextReconcile ==
  \/ \E cid \in DispatchIdInputs, outcomes \in [1..MaxAudience -> BOOLEAN] :
       Send(cid, outcomes)
  \/ \E payload \in ReceiptInputs : Accept(payload)
  \/ Tick
  \/ TickFault

SpecReconcile == InitReconcile /\ [][NextReconcile]_vars

(* Every operation that touches the log or the buffer, over the same
   configuration, where the reads and writes of a tick, the write of an
   intake and the log reads of a dispatch may fail. *)
NextAppend ==
  \/ NextTraffic
  \/ TickFault
  \/ AcceptFault
  \/ SendLogFault

SpecAppend == InitReconcile /\ [][NextAppend]_vars

(* Receipts that arrive before the dispatch they report on: over the same
   configuration, every receipt names the stored campaign and customer A,
   and dispatches, intakes and ticks interleave freely. *)
PairReceiptInputs == {p \in ReceiptInputs : p.campaignId[1] \in DispatchIdInputs}

NextEarly ==
  \/ \E cid \in DispatchIdInputs, outcomes \in [1..MaxAudience -> BOOLEAN] :
       Send(cid, outcomes)
  \/ \E payload \in PairReceiptInputs : Accept(payload)
  \/ Tick

SpecEarly == InitReconcile /\ [][NextEarly]_vars

(* The same traffic with the scheduler's guarantee: setInterval (709) keeps
   firing processReceiptsBatch, so a tick that can change the state is not
   postponed for ever; the store operations succeed. *)
SpecLive == InitReconcile /\ [][NextEarly]_vars /\ WF_vars(Tick)

(* Dispatch over the prepared configuration while customers arrive, where
   a write of the log may fail in the middle of the loop. *)
NextPartial ==
  \/ \E input \in CustomerInputs : IngestCustomer(input)
  \/ \E cid \in DispatchIdInputs, outcomes \in [1..MaxAudience -> BOOLEAN] :
       Send(cid, outcomes)
  \/ SendWriteFault

SpecPartial == InitTraffic /\ [][NextPartial]_vars

(* Every operation of the service from the empty stores, synchronous
   ingestion: customer A, orders on A's account, the segments of
   SegmentInputs, campaigns on them, dispatches, receipts for the stored
   campaigns and ticks; a run creates MaxObjects objects at most. *)
objects == issued["order"] + issued["segment"] + issued["campaign"]
             + issued["log"] + issued["receipt"]

FrameOps ==
  \/ \E input \in {c \in CustomerInputs : c.email = "A@x.io"} : IngestCustomer(input)
  \/ \E input \in {o \in OrderInputs : o.date = <<>>} : IngestOrder(input)
  \/ \E input \in SegmentInputs : SaveSegment(input)
  \/ \E input \in SegmentInputs \cup EdgeSegmentInputs : Preview(input)
  \/ \E sid \in SegmentIdInputs, m \in MessageInputs : CreateCampaign("n1", <<sid>>, m)
  \/ \E cid \in CampaignIdInputs, outcomes \in [1..MaxAudience -> BOOLEAN] : Send(cid, outcomes)
  \/ \E payload \in PairReceiptInputs : Accept(payload)
  \/ Tick

NextFrame == FrameOps /\ objects' <= MaxObjects

SpecFrame == Init /\ [][NextFrame]_vars

(* Synchronous customer and order ingestion with amounts of any size the
   schemas accept; the sums that occur (0.004 + 0, 0.004 + 19.999,
   20 + 19.999, ...) are no ties of toFixed(2). *)
NextRollup ==
  \/ \E input \in CustomerInputs \cup SmallCustomerInputs \cup BadCustomerInputs :
       IngestCustomer(input)
  \/ \E input \in {o \in OrderInputs : o.date = <<>>} \cup SmallOrderInputs
                      \cup BadOrderInputs :
       IngestOrder(input)

SpecRollup == Init /\ [][NextRollup]_vars

(* Ingestion with the queues or without, where an enqueue may be rejected
   (Redis unreachable) *)
NextEnqueue ==
  \/ NextIngest
  \/ \E input \in CustomerInputs : CustomerAddRejected(input)
  \/ \E input \in OrderInputs : OrderAddRejected(input)

SpecEnqueue == InitIngest /\ [][NextEnqueue]_vars

(* Ingestion, with the queues or without, of request sequences the direct
   path accepts in full: an order is submitted once its customer has been
   (the customer is stored, or its job waits in customersQueue). *)
submitted(email) ==
  \/ findCustomer(customers, email) # 0
  \/ \E j \in DOMAIN customersQueue.jobs :
       toLowerCase(customersQueue.jobs[j].email) = toLowerCase(email)

NextEquiv ==
  \/ \E input \in CustomerInputs : IngestCustomer(input)
  \/ \E input \in OrderInputs :
       /\ submitted(input.customer_email)
       /\ IngestOrder(input)
  \/ customersQueueProcess
  \/ ordersQueueProcess

SpecEquiv == InitIngest /\ [][NextEquiv]_vars

-----------------------------------------------------------------------------
(* Properties *)

Terminal == {"SENT", "PARTIAL_FAILED", "NO_AUDIENCE"}

Range(seq) == {seq[i] : i \in DOMAIN seq}

\* the step is a Send that answered 200 for the i-th stored campaign
SendStep(i) ==
  /\ res'.op = "send"
  /\ res'.code = 200
  /\ res'.id = campaigns[i].id

\* the step is a run of the receipts batch processor
TickStep == res'.op = "tick"

\* the stored segment of a campaign
segmentOf(campaign) ==
  segments[findIndex(segments, LAMBDA sg : sg.id = campaign.segmentId)]

\* the customers of the store that satisfy a campaign's segment, in store order
matchedBy(campaign) == audience(customers, segmentOf(campaign))

\* the records a step appended to the log
appended == SubSeq(commLog', Len(commLog) + 1, Len(commLog'))

samePair(x, y) ==
  x.campaignId = y.campaignId /\ x.customer_email = y.customer_email

\* the position of the first record of the log with a receipt's pair, 0 if none
firstRecordOf(r) ==
  IF \A k \in DOMAIN commLog : ~samePair(commLog[k], r) THEN 0
  ELSE CHOOSE k \in DOMAIN commLog :
         /\ samePair(commLog[k], r)
         /\ \A j \in 1..(k - 1) : ~samePair(commLog[j], r)

\* an email written in lower case
lower(email) == IF email = "A@x.io" THEN "a@x.io" ELSE email

(* C1: a Send on a campaign whose status is already SENT, PARTIAL_FAILED or
   NO_AUDIENCE leaves the communication log as it was. *)
C1_SendOnTerminalKeepsLog ==
  [][\A i \in DOMAIN campaigns :
       (campaigns[i].status \in Terminal /\ SendStep(i)) => commLog' = commLog]_vars

(* C2: a campaign leaves CREATED only for NO_AUDIENCE, SENT or PARTIAL_FAILED,
   and once its status is one of those three no step changes it. *)
C2_TerminalStatusIsFinal ==
  [][\A i \in DOMAIN campaigns :
       /\ i \in DOMAIN campaigns'
       /\ campaigns'[i].status \in Terminal \cup {"CREATED"}
       /\ campaigns[i].status \in Terminal =>
            campaigns'[i].status = campaigns[i].status]_vars

(* C3: the communication log never holds two records with the same
   (campaignId, customer_email) pair. *)
C3_OneRecordPerPair ==
  \A i, j \in DOMAIN commLog : samePair(commLog[i], commLog[j]) => i = j

(* C4: a Send on a campaign whose segment matches no customer sets the status
   to NO_AUDIENCE, leaves the communication log unchanged and answers
   audience_count = sent = failed = 0 with an empty sample. *)
C4_NoAudience ==
  [][\A i \in DOMAIN campaigns :
       (/\ SendStep(i)
        /\ \A c \in Range(customers) :
             ~matchesSegment(c, segmentOf(campaigns[i]).conditions,
                             segmentOf(campaigns[i]).logic))
       => /\ campaigns'[i].status = "NO_AUDIENCE"
          /\ commLog' = commLog
          /\ res'.body.audience_count = 0
          /\ res'.body.sent = 0
          /\ res'.body.failed = 0
          /\ res'.body.sample = <<>>]_vars

\* a Send found a customer store that is not empty and matched nobody in it
C4_Witness ==
  /\ res.op = "send"
  /\ res.code = 200
  /\ res.body.audience_count = 0
  /\ customers # <<>>
  /\ \E i \in DOMAIN campaigns :
       campaigns[i].id = res.id /\ campaigns[i].status = "NO_AUDIENCE"

(* C5: after a Send that matched at least one customer the status is SENT
   exactly when no attempt failed and PARTIAL_FAILED otherwise, and never
   NO_AUDIENCE, even when every attempt failed. *)
C5_StatusAggregation ==
  [][\A i \in DOMAIN campaigns :
       (SendStep(i) /\ Len(matchedBy(campaigns[i])) >= 1)
       => LET nFailed == Cardinality({k \in DOMAIN appended :
                                        appended[k].status = "FAILED"})
          IN /\ res'.body.failed = nFailed
             /\ campaigns'[i].status =
                  (IF nFailed = 0 THEN "SENT" ELSE "PARTIAL_FAILED")]_vars

\* a Send in which every attempt failed
C5_Witness ==
  /\ res.op = "send"
  /\ res.code = 200
  /\ res.body.audience_count >= 1
  /\ res.body.failed = res.body.audience_count
  /\ \E i \in DOMAIN campaigns :
       campaigns[i].id = res.id /\ campaigns[i].status = "PARTIAL_FAILED"

(* C6: a Send that matches n >= 1 customers appends exactly n records, the
   k-th for the k-th matched customer, each SENT or FAILED and carrying the
   campaign's id and message, however many attempts fail; the answer has
   audience_count = n = sent + failed, with sent and failed the numbers of
   appended records of each status. *)
C6_OneRecordPerMatch ==
  [][\A i \in DOMAIN campaigns :
       LET matches == matchedBy(campaigns[i])
           n == Len(matches)
       IN (SendStep(i) /\ n >= 1)
          => /\ Len(commLog') = Len(commLog) + n
             /\ SubSeq(commLog', 1, Len(commLog)) = commLog
             /\ \A k \in 1..n :
                  /\ appended[k].customer_email = matches[k].email
                  /\ appended[k].status \in {"SENT", "FAILED"}
                  /\ appended[k].campaignId = campaigns[i].id
                  /\ appended[k].message = campaigns[i].message
             /\ res'.body.audience_count = n
             /\ res'.body.sent + res'.body.failed = n
             /\ res'.body.sent =
                  Cardinality({k \in 1..n : appended[k].status = "SENT"})
             /\ res'.body.failed =
                  Cardinality({k \in 1..n : appended[k].status = "FAILED"})]_vars

\* a Send to two customers whose first attempt failed and second succeeded
C6_Witness ==
  /\ res.op = "send"
  /\ res.code = 200
  /\ res.body.audience_count = 2
  /\ res.body.sample[1].status = "FAILED"
  /\ res.body.sample[2].status = "SENT"
  /\ Len(commLog) >= 2
  /\ commLog[Len(commLog)] = res.body.sample[2]

(* C7 as claimed: after a run of the batch processor, the log record
   correlated with any buffered receipt has that receipt's status and
   receivedAt, and the buffer is empty. *)
C7_EveryReceiptApplied ==
  [][TickStep =>
       \A i \in DOMAIN receipts :
         LET idx == firstRecordOf(receipts[i])
         IN idx # 0 =>
              /\ commLog'[idx].status = receipts[i].status
              /\ commLog'[idx].deliveredAt = receipts[i].receivedAt
              /\ receipts' = <<>>]_vars

(* C7 as amended: after a run of the batch processor, the first log record of
   a pair has the status and receivedAt of the last buffered receipt for that
   pair, and the buffer is empty. *)
C7_LastReceiptApplied ==
  [][TickStep =>
       \A i \in DOMAIN receipts :
         LET idx == firstRecordOf(receipts[i])
         IN (/\ idx # 0
             /\ \A j \in DOMAIN receipts : samePair(receipts[j], receipts[i]) => j <= i)
            => /\ commLog'[idx].status = receipts[i].status
               /\ commLog'[idx].deliveredAt = receipts[i].receivedAt
               /\ receipts' = <<>>]_vars

\* a run drained two receipts of different status for one pair that has a record
C7_Witness ==
  /\ res.op = "tick"
  /\ Len(res.drained) = 2
  /\ samePair(res.drained[1], res.drained[2])
  /\ res.drained[1].status # res.drained[2].status
  /\ firstRecordOf(res.drained[2]) # 0
  /\ commLog[firstRecordOf(res.drained[2])].deliveredAt = res.drained[2].receivedAt
  /\ receipts = <<>>

(* C8: when no buffered receipt names a pair that has a log record, a run of
   the batch processor leaves the log unchanged, empties the buffer and raises
   no error. *)
C8_UnmatchedDiscarded ==
  [][(TickStep /\ \A i \in DOMAIN receipts : firstRecordOf(receipts[i]) = 0)
     => /\ commLog' = commLog
        /\ receipts' = <<>>
        /\ ~res'.error]_vars

\* a run drained a receipt for a recipient of the log under a campaign id that
\* has no record, and discarded it
C8_Witness ==
  /\ res.op = "tick"
  /\ receipts = <<>>
  /\ ~res.error
  /\ \E i \in DOMAIN res.drained, k \in DOMAIN commLog :
       /\ res.drained[i].customer_email = commLog[k].customer_email
       /\ res.drained[i].campaignId # commLog[k].campaignId
  /\ \A i \in DOMAIN res.drained, k \in DOMAIN commLog :
       /\ ~samePair(res.drained[i], commLog[k])
       /\ commLog[k].deliveredAt = <<>>

(* C9: whatever the interleaving of receipt intake and batch runs, every
   receipt a run removes from the buffer is one the run read and processed. *)
C9_NoReceiptLostByTick ==
  [][TickStep =>
       \A i \in DOMAIN receipts :
         receipts[i] \notin Range(receipts') => receipts[i] \in Range(res'.drained)]_vars

\* a run drained a buffer of two receipts
C9_Witness ==
  /\ res.op = "tick"
  /\ Len(res.drained) = 2
  /\ res.cleared
  /\ receipts = <<>>

(* C10: when the read of the communication log fails during a run of the
   batch processor, the run leaves the receipt buffer as it was. *)
C10_LogReadFailureKeepsBuffer ==
  [][(TickStep /\ res'.logReadFailed) => receipts' = receipts]_vars

(* C11: receipt intake answers 400 and leaves the buffer as it was when the
   submission lacks campaignId or customer_email; otherwise it appends exactly
   one receipt at the end of the buffer, with the submitted campaignId, the
   submitted email in lower case, and the submitted status or SENT when there
   is none. *)
C11_ReceiptIntake ==
  [][res'.op = "receipt" =>
       LET p == res'.req
       IN IF p.campaignId = <<>> \/ p.customer_email = <<>>
            THEN res'.code = 400 /\ receipts' = receipts
            ELSE /\ Len(receipts') = Len(receipts) + 1
                 /\ SubSeq(receipts', 1, Len(receipts)) = receipts
                 /\ LET rec == receipts'[Len(receipts')]
                    IN /\ rec.campaignId = p.campaignId[1]
                       /\ rec.customer_email = lower(p.customer_email[1])
                       /\ rec.status =
                            (IF p.status = <<>> THEN "SENT" ELSE p.status[1])]_vars

\* a submission without a status and with an upper-case letter in its email was
\* appended behind an earlier receipt
C11_Witness ==
  /\ res.op = "receipt"
  /\ res.code = 200
  /\ res.req.status = <<>>
  /\ res.req.customer_email = <<"A@x.io">>
  /\ Len(receipts) = 2
  /\ receipts[2].customer_email = "a@x.io"
  /\ receipts[2].status = "SENT"

\* the step is a customer ingestion through the handler or the queue processor
CustomerStep == res'.op \in {"customer", "customerJob"}

\* the step is an order ingestion, by the handler without queue or by the
\* queue processor, of a submission orderSchema accepts
OrderStep == res'.op \in {"order", "orderJob"} /\ res'.code \in {201, 404}

(* C12: the customer store never holds two customers whose emails are equal
   in lower case, and a customer ingestion, through the handler or the queue
   processor, either leaves the customer store as it was or appends one
   customer whose lower-case email no stored customer had: an email that is
   already stored changes nothing. *)
C12_CustomerIdempotent ==
  /\ [](\A i, j \in DOMAIN customers :
          lower(customers[i].email) = lower(customers[j].email) => i = j)
  /\ [][CustomerStep =>
          \/ customers' = customers
          \/ /\ Len(customers') = Len(customers) + 1
             /\ SubSeq(customers', 1, Len(customers)) = customers
             /\ \A i \in DOMAIN customers :
                  lower(customers[i].email) # lower(customers'[Len(customers')].email)]_vars

\* the queue processor met a job for an email already stored, in another
\* letter case, and left the two stored customers alone
C12_Witness ==
  /\ res.op = "customerJob"
  /\ res.code = 200
  /\ res.req.email = "A@x.io"
  /\ Len(customers) = 2
  /\ \E i \in DOMAIN customers : customers[i].email = "a@x.io"

(* C13: every stored order carries the email of a stored customer, and an
   order ingestion whose customer_email is, in lower case, no stored
   customer's email fails with "customer not found" and leaves the order store
   and the customer store as they were. *)
C13_OrderNeedsCustomer ==
  /\ [](\A k \in DOMAIN orders : \E i \in DOMAIN customers :
          customers[i].email = orders[k].customer_email)
  /\ [][OrderStep =>
          LET known == \E i \in DOMAIN customers :
                         lower(customers[i].email) = lower(res'.req.customer_email)
          IN /\ ~known => /\ res'.code = 404
                          /\ orders' = orders
                          /\ customers' = customers
             /\ orders' # orders => known]_vars

\* the queue processor failed a job for an unknown email while customers and
\* orders were stored
C13_Witness ==
  /\ res.op = "orderJob"
  /\ res.code = 404
  /\ customers # <<>>
  /\ orders # <<>>

(* C14: a successful order ingestion appends one order, with the submitted
   amount, and changes exactly the customer the order names: total_spent
   becomes a whole number of hundredths at most half a hundredth away from
   the previous total_spent plus the amount, and last_order_date becomes the
   order's date, later than the previous one or not. *)
C14_OrderRollup ==
  [][(OrderStep /\ res'.code = 201) =>
       /\ Len(orders') = Len(orders) + 1
       /\ SubSeq(orders', 1, Len(orders)) = orders
       /\ Len(customers') = Len(customers)
       /\ LET order == orders'[Len(orders')]
          IN /\ order.amount = res'.req.amount
             /\ order.customer_email = lower(res'.req.customer_email)
             /\ \A i \in DOMAIN customers :
                  IF customers[i].email = order.customer_email
                    THEN LET sum == customers[i].total_spent + order.amount
                             new == customers'[i].total_spent
                         IN /\ new % 10 = 0
                            /\ new - sum <= 5
                            /\ sum - new <= 5
                            /\ customers'[i].last_order_date = <<order.date>>
                            /\ customers'[i].email = customers[i].email
                    ELSE customers'[i] = customers[i]]_vars

\* the second order of a customer, dated before the first, set last_order_date
\* back; the first order's sum ended in 5 thousandths; another customer is stored
C14_Witness ==
  /\ res.op \in {"order", "orderJob"}
  /\ res.code = 201
  /\ Len(orders) = 2
  /\ orders[1].amount = 25555
  /\ orders[2].date < orders[1].date
  /\ Len(customers) = 2
  /\ \E i \in DOMAIN customers :
       /\ customers[i].email = orders[2].customer_email
       /\ customers[i].last_order_date = <<orders[2].date>>
       /\ customers[i].total_spent = 45550

(* C15: a campaign creation appends a campaign, with status CREATED, exactly
   when name, segmentId and message are all present and segmentId is the id
   of a stored segment; when all three are present and no stored segment has
   that id it answers "segment not found" and leaves the campaign store as it
   was. *)
C15_CreateCampaign ==
  [][res'.op = "campaign" =>
       LET p == res'.req
           present == p.name # "" /\ p.segmentId # <<>> /\ p.message # ""
           stored == /\ p.segmentId # <<>>
                     /\ \E k \in DOMAIN segments : segments[k].id = p.segmentId[1]
       IN /\ (present /\ stored) <=> campaigns' # campaigns
          /\ campaigns' # campaigns =>
               /\ Len(campaigns') = Len(campaigns) + 1
               /\ SubSeq(campaigns', 1, Len(campaigns)) = campaigns
               /\ campaigns'[Len(campaigns')].status = "CREATED"
               /\ campaigns'[Len(campaigns')].segmentId = p.segmentId[1]
               /\ res'.code = 201
          /\ (present /\ ~stored) => res'.code = 404]_vars

\* a creation naming a segment id that no stored segment has was refused while
\* a segment and a campaign were stored
C15_Witness ==
  /\ res.op = "campaign"
  /\ res.code = 404
  /\ res.req.segmentId = <<0>>
  /\ segments # <<>>
  /\ campaigns # <<>>

(* C17: every stored segment has at least one condition, each with a field
   among total_spent, email, last_order_date and an operator among gt, gte,
   lt, lte, eq, neq, and a logic of AND or OR; saving or previewing an empty
   condition list answers 400, stores nothing and computes no audience. *)
C17_SegmentsWellFormed ==
  /\ [](\A k \in DOMAIN segments :
          /\ Len(segments[k].conditions) >= 1
          /\ \A i \in DOMAIN segments[k].conditions :
               /\ segments[k].conditions[i].field
                    \in {"total_spent", "email", "last_order_date"}
               /\ segments[k].conditions[i].op
                    \in {"gt", "gte", "lt", "lte", "eq", "neq"}
          /\ segments[k].logic \in {"AND", "OR"})
  /\ [][(res'.op \in {"segment", "preview"} /\ res'.req.conditions = <<>>) =>
          /\ res'.code = 400
          /\ "body" \notin DOMAIN res'
          /\ segments' = segments]_vars

\* a preview of an empty condition list was refused while customers and a
\* segment were stored
C17_Witness ==
  /\ res.op = "preview"
  /\ res.code = 400
  /\ res.req.conditions = <<>>
  /\ customers # <<>>
  /\ segments # <<>>

(* C16: a Send naming no stored campaign answers "campaign not found", a Send
   for a campaign whose segment is not stored answers "segment not found", and
   a Send that answers either leaves the campaign store and the communication
   log as they were. *)
C16_SendLookups ==
  [][res'.op = "send" =>
       LET known == \E i \in DOMAIN campaigns : campaigns[i].id = res'.id
           hasSegment == \E i \in DOMAIN campaigns, k \in DOMAIN segments :
                           /\ campaigns[i].id = res'.id
                           /\ segments[k].id = campaigns[i].segmentId
       IN /\ ~known => res'.code = 404 /\ res'.error = "Campaign not found"
          /\ (known /\ ~hasSegment) =>
               res'.code = 404 /\ res'.error = "Segment for campaign not found"
          /\ res'.code = 404 => campaigns' = campaigns /\ commLog' = commLog]_vars

\* a Send found no segment for its campaign (segments.json could not be read)
\* after an earlier Send of the campaign had written the log
C16_Witness ==
  /\ res.op = "send"
  /\ res.code = 404
  /\ res.error = "Segment for campaign not found"
  /\ commLog # <<>>
  /\ \E i \in DOMAIN campaigns : campaigns[i].id = res.id /\ campaigns[i].status # "CREATED"

\* the last step applied matchCondition to a condition on the given field
Matched(field) == res.op = "match" /\ res.condition.field = field

\* what an operator means for two numbers
means(op, left, right) ==
  \/ op = "gt" /\ left > right
  \/ op = "gte" /\ left >= right
  \/ op = "lt" /\ left < right
  \/ op = "lte" /\ left <= right
  \/ op = "eq" /\ left = right
  \/ op = "neq" /\ left # right

(* C18: on field total_spent, matchCondition compares the customer's
   total_spent, 0 when the customer has none, with the condition's value by
   the numeric meaning of the operator, and is false for every operator when
   the value is not numeric (neither a number nor a numeral). *)
C18_TotalSpentMatch ==
  Matched("total_spent") =>
    LET left == IF "total_spent" \in DOMAIN res.customer
                  THEN res.customer.total_spent ELSE 0
        v == res.condition.value
    IN IF v.kind = "num" THEN res.result = means(res.condition.op, left, v.n)
       ELSE IF v = Str("50") THEN res.result = means(res.condition.op, left, 50)
       ELSE res.result = FALSE

(* C19: on field last_order_date, matchCondition compares the customer's
   timestamp, 0 when the customer has no date, with the timestamp of the
   condition's value, and is false for every operator, neq included, when the
   value does not parse as a date. *)
C19_LastOrderDateMatch ==
  Matched("last_order_date") =>
    LET leftTs == IF /\ "last_order_date" \in DOMAIN res.customer
                     /\ res.customer.last_order_date # <<>>
                    THEN res.customer.last_order_date[1] ELSE 0
        v == res.condition.value
    IN IF v.kind = "date" THEN res.result = means(res.condition.op, leftTs, v.n)
       ELSE res.result = FALSE

\* a customer without a date matched "equal to the epoch"
C19_Witness ==
  /\ Matched("last_order_date")
  /\ res.customer # <<>>
  /\ res.customer.last_order_date = <<>>
  /\ res.condition.op = "eq"
  /\ res.condition.value = IsoDate(0)
  /\ res.result

(* C20: on a field other than total_spent and last_order_date, gt, gte, lt and
   lte are false for every customer and value, neq is the negation of eq, and
   eq holds, for a customer that has the field, exactly when the field and the
   value are the same string up to letter case. *)
C20_StringMatch ==
  (res.op = "match" /\ res.condition.field \notin {"total_spent", "last_order_date"}) =>
    LET c == res.customer
        cond == res.condition
        text == IF cond.value.kind = "num" THEN ToString(cond.value.n) ELSE cond.value.s
        eq == matchCondition(c, [cond EXCEPT !.op = "eq"])
    IN /\ cond.op \notin {"eq", "neq"} => ~res.result
       /\ cond.op = "neq" => res.result = ~eq
       /\ (cond.op = "eq" /\ cond.field \in DOMAIN c) =>
            res.result = (lower(c[cond.field]) = lower(text))

\* an email matched a value written with another letter case
C20_Witness ==
  /\ res.op = "match"
  /\ res.condition = [field |-> "email", op |-> "eq", value |-> Str("A@x.io")]
  /\ res.customer # <<>>
  /\ res.customer.email = "a@x.io"
  /\ res.result

\* the logic a request body stands for
effective(logic) == IF logic = <<>> THEN "AND" ELSE logic[1]

\* the positions of the conditions a customer matches
holding(c, conditions) ==
  {i \in DOMAIN conditions : matchCondition(c, conditions[i])}

\* the customer satisfies the rule-set: all conditions under AND, one under OR
satisfies(c, conditions, logic) ==
  IF logic = "AND" THEN holding(c, conditions) = DOMAIN conditions
  ELSE holding(c, conditions) # {}

\* the step is a Preview that answered 200
PreviewStep == res'.op = "preview" /\ res'.code = 200

(* C21: over a non-empty condition list, a customer is in the audience under
   AND iff it matches every condition and under OR iff it matches at least
   one; the preview and the dispatch both resolve their audience by this
   rule. *)
C21_Evaluate ==
  [][ /\ (PreviewStep /\ res'.req.logic # <<>>) =>
          LET rule == res'.req
              in == {k \in DOMAIN customers :
                      satisfies(customers[k], rule.conditions, rule.logic[1])}
          IN /\ res'.body.audience_count = Cardinality(in)
             /\ \A c \in Range(res'.body.sample) :
                  \E k \in in : customers[k] = c
      /\ \A i \in DOMAIN campaigns :
           SendStep(i) =>
             LET rule == segmentOf(campaigns[i])
                 in == {k \in DOMAIN customers :
                         satisfies(customers[k], rule.conditions, rule.logic)}
             IN /\ res'.body.audience_count = Cardinality(in)
                /\ {appended[k].customer_email : k \in DOMAIN appended}
                     = {customers[k].email : k \in in} ]_vars

\* a preview under OR kept a customer that matches one condition of two and
\* left another customer out
C21_Witness ==
  /\ res.op = "preview"
  /\ res.code = 200
  /\ res.req.logic = <<"OR">>
  /\ Len(res.req.conditions) = 2
  /\ res.body.audience_count < Len(customers)
  /\ \E c \in Range(res.body.sample) :
       Cardinality(holding(c, res.req.conditions)) = 1

\* the customers of the store that satisfy a rule-set, in store order
resolved(conditions, logic) ==
  SelectSeq(customers, LAMBDA c : satisfies(c, conditions, logic))

(* C22: the audience is the subsequence of the customer store, in insertion
   order, of the customers the rule-set evaluates to true for; Preview
   answers its full length as audience_count and its first
   min(PreviewSize, count) members as sample; a dispatch on a segment with
   the same conditions and logic writes its records for that same sequence. *)
C22_AudienceInOrder ==
  [][ /\ PreviewStep =>
          LET m == resolved(res'.req.conditions, effective(res'.req.logic))
              n == IF Len(m) < PreviewSize THEN Len(m) ELSE PreviewSize
          IN /\ res'.body.audience_count = Len(m)
             /\ res'.body.sample = SubSeq(m, 1, n)
      /\ \A i \in DOMAIN campaigns :
           SendStep(i) =>
             LET rule == segmentOf(campaigns[i])
                 m == resolved(rule.conditions, rule.logic)
             IN [k \in DOMAIN appended |-> appended[k].customer_email]
                  = [k \in DOMAIN m |-> m[k].email] ]_vars

\* a preview counted more customers than the sample holds, and the customers
\* it kept are not next to each other in the store
C22_Witness ==
  /\ res.op = "preview"
  /\ res.code = 200
  /\ res.body.audience_count > PreviewSize
  /\ Len(res.body.sample) = PreviewSize
  /\ Len(customers) > res.body.audience_count

\* the k-th record of the log comes after another record of its pair
laterOfPair(k) == \E j \in 1..(k - 1) : samePair(commLog[j], commLog[k])

(* C23: when the log holds several records of a receipt's pair, a tick updates
   the first of them in log order and leaves the later ones as they were. *)
C23_FirstRecordOnly ==
  [][ TickStep =>
        /\ Len(commLog') = Len(commLog)
        /\ \A k \in DOMAIN commLog : laterOfPair(k) => commLog'[k] = commLog[k]
        /\ \A i \in DOMAIN receipts :
             firstRecordOf(receipts[i]) # 0 =>
               /\ commLog'[firstRecordOf(receipts[i])].deliveredAt # <<>>
               /\ commLog'[firstRecordOf(receipts[i])].status
                    \in {receipts[j].status : j \in DOMAIN receipts} ]_vars

\* a tick met two records of one pair and a receipt accepted after the second
\* was written: the first record carries the receipt, the second does not
C23_Witness ==
  /\ res.op = "tick"
  /\ Len(commLog) = 2
  /\ samePair(commLog[1], commLog[2])
  /\ \E i \in DOMAIN res.drained :
       /\ samePair(res.drained[i], commLog[1])
       /\ commLog[1].deliveredAt = res.drained[i].receivedAt
       /\ res.drained[i].receivedAt[1] >= commLog[2].timestamp
  /\ commLog[2].deliveredAt = <<>>

(* C24: a tick writes the log store iff at least one receipt it drained
   matched a log record; a tick that finds the buffer empty writes neither
   the log store nor the buffer. *)
C24_LogWrittenIffMatched ==
  [][ TickStep =>
        /\ ("log" \in res'.wrote)
             <=> (\E i \in DOMAIN receipts : firstRecordOf(receipts[i]) # 0)
        /\ receipts = <<>> =>
             /\ res'.wrote = {}
             /\ commLog' = commLog
             /\ receipts' = receipts ]_vars

\* a tick drained receipts of which none had a record in a non-empty log: it
\* wrote the buffer only
C24_Witness ==
  /\ res.op = "tick"
  /\ res.drained # <<>>
  /\ commLog # <<>>
  /\ \A i \in DOMAIN res.drained : firstRecordOf(res.drained[i]) = 0
  /\ res.wrote = {"receipts"}

\* the position in the buffer of the last receipt with the pair of receipt i
lastOfPair(i) ==
  CHOOSE j \in DOMAIN receipts :
    /\ samePair(receipts[j], receipts[i])
    /\ \A k \in (j + 1)..Len(receipts) : ~samePair(receipts[k], receipts[i])

(* C25: when the buffer holds several receipts of one pair, a tick leaves the
   number of log records as it was, the record of the pair ends with the
   status and the receivedAt of the last of these receipts in buffer order,
   and the buffer is empty afterwards. *)
C25_DuplicateReceipts ==
  [][ TickStep =>
        \A i \in DOMAIN receipts :
          lastOfPair(i) # i =>
            /\ Len(commLog') = Len(commLog)
            /\ receipts' = <<>>
            /\ firstRecordOf(receipts[i]) # 0 =>
                 LET after == commLog'[firstRecordOf(receipts[i])]
                 IN /\ after.status = receipts[lastOfPair(i)].status
                    /\ after.deliveredAt = receipts[lastOfPair(i)].receivedAt ]_vars

\* a tick drained two receipts of one pair that disagree on the status: the
\* log has as many records as were dispatched and the record of the pair
\* carries the second receipt
C25_Witness ==
  /\ res.op = "tick"
  /\ Len(res.drained) = 2
  /\ samePair(res.drained[1], res.drained[2])
  /\ res.drained[1].status # res.drained[2].status
  /\ receipts = <<>>
  /\ Len(commLog) = issued["log"]
  /\ \E k \in DOMAIN commLog :
       /\ samePair(commLog[k], res.drained[2])
       /\ commLog[k].status = res.drained[2].status
       /\ commLog[k].deliveredAt = res.drained[2].receivedAt

\* the fields of a log record that reconciliation does not own
fixedFields(l) ==
  [id |-> l.id, campaignId |-> l.campaignId, customer_email |-> l.customer_email,
   message |-> l.message, timestamp |-> l.timestamp]

(* C26: a tick, whether or not its reads and writes succeed, neither adds,
   removes nor reorders log records; it changes no field of a record other
   than status and deliveredAt, and it leaves every record that no drained
   receipt matches exactly as it was. *)
C26_TickFrame ==
  [][ TickStep =>
        /\ Len(commLog') = Len(commLog)
        /\ \A k \in DOMAIN commLog :
             /\ fixedFields(commLog'[k]) = fixedFields(commLog[k])
             /\ (\A i \in DOMAIN receipts : firstRecordOf(receipts[i]) # k)
                  => commLog'[k] = commLog[k] ]_vars

\* a tick changed the status and the deliveredAt of the first record and left
\* the second record, which is the first of no drained receipt's pair, as
\* dispatched
C26_Witness ==
  /\ res.op = "tick"
  /\ "log" \in res.wrote
  /\ Len(commLog) = 2
  /\ commLog[1].deliveredAt # <<>>
  /\ commLog[1].status = "DELIVERED"
  /\ commLog[1].id = 1
  /\ commLog[2].id = 2
  /\ commLog[2].deliveredAt = <<>>
  /\ commLog[2].status \in {"SENT", "FAILED"}

\* the step is a tick that read the buffer and the log, and cleared the buffer
TickDone ==
  /\ TickStep
  /\ receipts # <<>>
  /\ res'.drained = receipts
  /\ ~res'.logReadFailed
  /\ res'.cleared

(* C28: a tick during which the write of the updated log fails ends as an
   ordinary step (the error is caught and logged, nothing is raised) with
   the log store and the receipt buffer as they were; a later tick that
   succeeds meets those receipts in the buffer and applies them. *)
C28_LogWriteFailure ==
  [][ /\ (TickStep /\ res'.logWriteFailed) =>
          /\ res'.error
          /\ res'.wrote = {}
          /\ receipts' = receipts
          /\ commLog' = commLog
      /\ TickDone =>
          /\ receipts' = <<>>
          /\ \A i \in DOMAIN receipts :
               firstRecordOf(receipts[i]) # 0 =>
                 LET after == commLog'[firstRecordOf(receipts[i])]
                 IN /\ after.status = receipts[lastOfPair(i)].status
                    /\ after.deliveredAt = receipts[lastOfPair(i)].receivedAt ]_vars

\* a tick whose log write failed: the receipt it drained is still buffered
\* and its record is as dispatched
C28_Witness ==
  /\ res.op = "tick"
  /\ res.logWriteFailed
  /\ res.drained = receipts
  /\ \E i \in DOMAIN receipts :
       /\ firstRecordOf(receipts[i]) # 0
       /\ commLog[firstRecordOf(receipts[i])].deliveredAt = <<>>

\* the ids of the log records, in log order
idsOf(logs) == [k \in DOMAIN logs |-> logs[k].id]

(* C27: the log is append-only: across every step of every operation,
   steps during which a store read fails included, the sequence of record
   ids before the step is a prefix of the sequence after it. *)
C27_AppendOnly ==
  [][ /\ Len(commLog) <= Len(commLog')
      /\ idsOf(commLog) = SubSeq(idsOf(commLog'), 1, Len(commLog)) ]_vars

\* the step is a receipt intake
AcceptStep == res'.op = "receipt"

(* C29: a receipt intake changes the receipt buffer and no other store; the
   status and the deliveredAt of a log record change during ticks only. *)
C29_IntakeBuffersOnly ==
  [][ /\ AcceptStep =>
          /\ UNCHANGED <<customers, orders, segments, campaigns, commLog>>
          /\ res'.code = 200 => receipts' # receipts
      /\ \A j \in DOMAIN commLog, k \in DOMAIN commLog' :
           (/\ commLog'[k].id = commLog[j].id
            /\ \/ commLog'[k].status # commLog[j].status
               \/ commLog'[k].deliveredAt # commLog[j].deliveredAt)
             => TickStep ]_vars

\* a receipt was accepted for a pair that has a record: the receipt is in the
\* buffer and the record is as dispatched
C29_Witness ==
  /\ res.op = "receipt"
  /\ res.code = 200
  /\ receipts # <<>>
  /\ firstRecordOf(receipts[Len(receipts)]) # 0
  /\ commLog[firstRecordOf(receipts[Len(receipts)])].deliveredAt = <<>>
  /\ commLog[firstRecordOf(receipts[Len(receipts)])].status \in {"SENT", "FAILED"}
  /\ receipts[Len(receipts)].status = "DELIVERED"

(* C30: a receipt drained before the log record of its pair is appended is
   never applied.  A tick removes every receipt it drained from the buffer,
   matched or not; a dispatch appends its records with their dispatch status
   and no deliveredAt, whatever receipts were accepted before; and a record
   changes only in a tick that finds a receipt of its pair in the buffer,
   one submitted after the last drain. *)
C30_EarlyReceiptNeverApplied ==
  [][ /\ (TickStep /\ receipts # <<>>) => receipts' = <<>>
      /\ \A i \in DOMAIN campaigns :
           SendStep(i) =>
             \A k \in DOMAIN appended :
               /\ appended[k].deliveredAt = <<>>
               /\ appended[k].status \in {"SENT", "FAILED"}
      /\ \A k \in DOMAIN commLog :
           (k \in DOMAIN commLog' /\ commLog'[k] # commLog[k]) =>
             /\ TickStep
             /\ \E i \in DOMAIN receipts : samePair(receipts[i], commLog[k]) ]_vars

\* receipts for the pair were accepted and drained while the log was empty;
\* the dispatch that followed appended the pair's record, which is as
\* dispatched, and a tick after it changed nothing
C30_Witness ==
  /\ res.op = "tick"
  /\ res.drained = <<>>
  /\ receipts = <<>>
  /\ issued["receipt"] >= 1
  /\ Len(commLog) = 1
  /\ commLog[1].timestamp = 1 + issued["receipt"]
  /\ commLog[1].deliveredAt = <<>>
  /\ commLog[1].status \in {"SENT", "FAILED"}

\* the receipt with this id is in the buffer
buffered(id) == \E i \in DOMAIN receipts : receipts[i].id = id

(* C31: while the ticks keep firing and the store operations succeed, every
   receipt accepted into the buffer is eventually removed from it; a tick is
   one bounded run over the receipts it read, which are those of the buffer
   at that moment. *)
C31_ReceiptsTransient ==
  /\ \A id \in 1..MaxReceipts : buffered(id) ~> ~buffered(id)
  /\ [][TickStep => res'.drained = receipts]_vars

\* every receipt that was accepted has been drained by ticks, the last of
\* which took several at once
C31_Witness ==
  /\ res.op = "tick"
  /\ Len(res.drained) >= 2
  /\ res.cleared
  /\ issued["receipt"] = MaxReceipts
  /\ \A id \in 1..MaxReceipts : ~buffered(id)

(* C32: under every interleaving of dispatches, intakes and ticks each log
   append is one read-modify-write of the log store.  No appended record is
   ever lost: the log holds the records of every append made so far, in the
   order of their ids.  No update of a tick is ever lost: a dispatch leaves
   the records already in the log exactly as they are, and a record that has
   a deliveredAt keeps one. *)
C32_NoLostUpdate ==
  /\ [](idsOf(commLog) = [k \in 1..issued["log"] |-> k])
  /\ [][ /\ \A i \in DOMAIN campaigns :
             SendStep(i) => SubSeq(commLog', 1, Len(commLog)) = commLog
         /\ \A k \in DOMAIN commLog :
             commLog[k].deliveredAt # <<>> =>
               /\ k \in DOMAIN commLog'
               /\ commLog'[k].deliveredAt # <<>> ]_vars

\* the log holds a record that carries a tick's update and, behind it, the
\* record of a dispatch made after that receipt's intake; a tick ran last
C32_Witness ==
  /\ res.op = "tick"
  /\ Len(commLog) >= 2
  /\ commLog[1].deliveredAt # <<>>
  /\ commLog[1].deliveredAt[1] < commLog[Len(commLog)].timestamp
  /\ commLog[Len(commLog)].id = issued["log"]

\* the step is a Send on the i-th stored campaign that ended in a failed write
SendFailedStep(i) ==
  /\ res'.op = "send"
  /\ res'.code = 500
  /\ res'.id = campaigns[i].id

(* C33: when the write of the log fails while a Send appends its k-th
   record, the caller gets an error response, the k-1 records appended
   before are in the log, behind the records it held, and the campaign store
   is as it was: the status is not set by that call. *)
C33_PartialDispatch ==
  [][ \A i \in DOMAIN campaigns :
        SendFailedStep(i) =>
          /\ campaigns' = campaigns
          /\ SubSeq(commLog', 1, Len(commLog)) = commLog
          /\ Len(appended) = res'.failedAt - 1
          /\ \A j \in DOMAIN appended :
               /\ appended[j].campaignId = campaigns[i].id
               /\ appended[j].customer_email = matchedBy(campaigns[i])[j].email
               /\ appended[j].status \in {"SENT", "FAILED"} ]_vars

\* the second write of a first dispatch failed: the first record is in the
\* log and the campaign is as created
C33_Witness ==
  /\ res.op = "send"
  /\ res.code = 500
  /\ res.failedAt = 2
  /\ Len(commLog) = 1
  /\ commLog[1].id = 1
  /\ campaigns[1].status = "CREATED"

\* the operations other than campaign creation and dispatch
NotCampaignOps == {"customer", "order", "segment", "preview", "receipt", "tick"}

(* C34: receipt intake, ticks, customer and order ingestion, segment save and
   preview leave the campaign store as it is; campaign creation leaves the
   stored campaigns as they are; a Send changes at most the status of the
   campaign it names. *)
C34_CampaignFrame ==
  [][ /\ res'.op \in NotCampaignOps => campaigns' = campaigns
      /\ res'.op = "campaign" => SubSeq(campaigns', 1, Len(campaigns)) = campaigns
      /\ res'.op = "send" =>
           /\ Len(campaigns') = Len(campaigns)
           /\ \A j \in DOMAIN campaigns :
                IF campaigns[j].id = res'.id
                  THEN [campaigns'[j] EXCEPT !.status = campaigns[j].status]
                         = campaigns[j]
                  ELSE campaigns'[j] = campaigns[j] ]_vars

\* a campaign was dispatched and the operations that followed, a receipt
\* intake the last of them, left it as dispatched
C34_Witness ==
  /\ res.op = "receipt"
  /\ campaigns # <<>>
  /\ campaigns[1] = [id |-> 1, name |-> "n1", segmentId |-> 1, message |-> "m1",
                      status |-> campaigns[1].status]
  /\ campaigns[1].status \in {"SENT", "PARTIAL_FAILED"}
  /\ commLog # <<>>

\* the operations other than customer and order ingestion
NotCustomerOps == {"segment", "preview", "campaign", "send", "receipt", "tick"}

(* C35: preview, segment save, campaign creation, Send, receipt intake and
   ticks leave the customer store as it is; customer creation leaves the
   stored customers as they are. *)
C35_CustomerFrame ==
  [][ /\ res'.op \in NotCustomerOps => customers' = customers
      /\ res'.op = "customer" => SubSeq(customers', 1, Len(customers)) = customers ]_vars

\* a preview whose audience leaves a stored customer out was answered, and
\* the customer is in the store
C35_Witness ==
  /\ res.op = "preview"
  /\ res.code = 200
  /\ res.body.audience_count < Len(customers)
  /\ \E k \in DOMAIN customers : customers[k].email = "a@x.io"

(* C36: every stored customer's total_spent is non-negative in every
   reachable state, and no step makes it smaller. *)
C36_TotalSpentMonotone ==
  /\ [](\A k \in DOMAIN customers : customers[k].total_spent >= 0)
  /\ [][ \A k \in DOMAIN customers :
           /\ k \in DOMAIN customers'
           /\ customers'[k].total_spent >= customers[k].total_spent ]_vars

(* C37: a valid ingestion request that is not enqueued, because no queue is
   configured or because the enqueue failed, is served by the direct store
   write and answered: a customer request with 200 or 201, an order request
   with 201 or 404, and the 201 comes with the object in the store. *)
C37_QueueFallback ==
  [][ /\ (res'.op = "customer" /\ res'.code # 400 /\ customersQueue' = customersQueue)
          => /\ res'.code \in {200, 201}
             /\ res'.code = 201 => Len(customers') = Len(customers) + 1
      /\ (res'.op = "order" /\ res'.code # 400 /\ ordersQueue' = ordersQueue)
          => /\ res'.code \in {201, 404}
             /\ res'.code = 201 => Len(orders') = Len(orders) + 1 ]_vars

(* C38: the queued and the direct path store the same things.  For request
   sequences in which every order follows its customer the direct path
   stores every order and rolls it up; so must the queued path once the jobs
   are processed, in whatever order the two queues deliver them: every
   order that leaves the handler or the queue is stored and rolled up. *)
C38_PathsInterchangeable ==
  [][ (res'.op \in {"order", "orderJob"} /\ res'.code # 202) =>
        /\ res'.code = 201
        /\ Len(orders') = Len(orders) + 1
        /\ \E k \in DOMAIN customers :
             /\ customers[k].email = lower(res'.req.customer_email)
             /\ customers'[k].last_order_date = <<orders'[Len(orders')].date>> ]_vars

\* the Send of the step answered that the campaign's segment was not found
SegmentNotFound ==
  /\ res'.op = "send"
  /\ res'.code = 404
  /\ res'.error = "Segment for campaign not found"

(* C39: in every state the operations of the service reach, each stored
   campaign's segmentId is the id of a stored segment; no step modifies or
   removes a stored segment; and no Send answers that the segment of its
   campaign was not found. *)
C39_SegmentAlwaysFound ==
  /\ [](\A i \in DOMAIN campaigns :
          \E j \in DOMAIN segments : segments[j].id = campaigns[i].segmentId)
  /\ [][SubSeq(segments', 1, Len(segments)) = segments]_vars
  /\ [][~SegmentNotFound]_vars

\* a campaign on a stored segment was dispatched: the Send found the segment
C39_Witness ==
  /\ res.op = "send"
  /\ res.code = 200
  /\ \E i \in DOMAIN campaigns :
       /\ campaigns[i].id = res.id
       /\ campaigns[i].status # "CREATED"
       /\ \E j \in DOMAIN segments : segments[j].id = campaigns[i].segmentId

\* the emails of the stores
storedEmails ==
  {customers[k].email : k \in DOMAIN customers}
    \cup {orders[k].customer_email : k \in DOMAIN orders}
    \cup {commLog[k].customer_email : k \in DOMAIN commLog}
    \cup {receipts[k].customer_email : k \in DOMAIN receipts}

(* C40: in every reachable state the email of every stored customer, order,
   log record and buffered receipt is in lower case; so a tick applies a
   receipt to the record of its campaign whose email is the receipt's up to
   letter case, however the customer and the receipt were typed. *)
C40_EmailsLowercase ==
  /\ [](\A e \in storedEmails : e = lower(e))
  /\ [][ TickStep =>
           \A i \in DOMAIN receipts, k \in DOMAIN commLog :
             (/\ commLog[k].campaignId = receipts[i].campaignId
              /\ lower(commLog[k].customer_email) = lower(receipts[i].customer_email)
              /\ \A j \in 1..(k - 1) : ~samePair(commLog[j], commLog[k]))
               => commLog'[k].deliveredAt # <<>> ]_vars

\* customer A was ingested and a receipt submitted with the email typed
\* A@x.io; the customer, the log record and the receipt drained by the tick
\* carry a@x.io, and the record carries the receipt
C40_Witness ==
  /\ res.op = "tick"
  /\ \E i \in DOMAIN res.drained, k \in DOMAIN commLog :
       /\ res.drained[i].customer_email = "a@x.io"
       /\ commLog[k].customer_email = "a@x.io"
       /\ commLog[k].deliveredAt = res.drained[i].receivedAt
  /\ \E k \in DOMAIN customers : customers[k].email = "a@x.io"

====
